---- MODULE Spec2Model ----
(***************************************************************************)
(* Curation-and-delivery pipeline of codenameju/news: the news Store       *)
(* (DatabaseManager in app.py), the provider retry wrappers and            *)
(* curate_news (AIAgent in app.py) and the delivery scheduler              *)
(* (telegram_bot.py).                                                      *)
(***************************************************************************)
EXTENDS Integers, Sequences, FiniteSets, TLC

VARIABLES
    news,       \* the news table: a sequence of rows, row i has id i
    today,      \* index into Calendar of the current KST day
    lastCall,   \* history: the most recent Store call, its arguments and result
    clients,    \* AIAgent: which of xai_client, groq_client, client are set
    aipc,       \* curate_news: "idle", "request" (inside a retry wrapper), "done"
    provider,   \* the provider whose retry wrapper curate_news called, or "none"
    attempt,    \* the wrapper's loop variable
    trace,      \* history: the outcome of each request the wrapper made, in order
    waits,      \* history: the wait_time of each sleep the wrapper made, in order
    result,     \* how the wrapper ended: "pending", "response", "raised", "None"
    curated,    \* what curate_news returned: "pending", "empty" for its own [],
                \* or the kind of the parsed value it passed on
    query,      \* the most recent get_unsent_news call: its filters and its rows
    clock,      \* index into DayTimes of the current KST time of day
    ticked,     \* the running bot has made its loop iteration of this minute
    last_news_execution,    \* telegram_bot.main: per schedule time, day and hour
    sentCount,  \* history: per row, the sent scheduled-news messages holding it
    lastSend,   \* history: what the most recent loop iteration sent
    firings,    \* history: send_scheduled_news calls made at this day and time
    failedBatch,    \* history: the rows of the message whose send failed at the
                    \* most recent firing, none if that firing sent or had no rows
    schedule_str, \* settings: the value stored under news_schedule_times, or NoSetting
    notice,     \* what the schedule form showed last: "none", "success", "error"
    pc,         \* where each scheduling loop stands
    loopClock,  \* index into LoopTimes of the current KST time of day
    last_vocab_execution, \* telegram_bot.main: NoVocab or the time kept
    raised,     \* history: what last left the try block of each loop
    beat,       \* history: the last loop iteration of telegram_bot.main
    drillRef,   \* history: minute of the last drill firing or process start
    sendCall,   \* history: the last call of send_telegram_message
    fetching,   \* fetch_news / fetch_latest_news: the run over the categories
    card,       \* create_card_news_with_buttons: its arguments and what it returned
    vocab,      \* the vocab table: the status of each row, row i has id i
    hook,       \* history: the last update the webhook handled
    services,   \* app.py: per run of the script, its two background threads
    run,        \* history: the most recent curation run of one category
    scenario,   \* history: how far the run of three new Economy entries has come
    text,       \* the raw provider response handed to clean_json_response
    parsed      \* what clean_json_response made of it

(***************************************************************************)
(* Bounds of the model.                                                    *)
(***************************************************************************)
NumURLs == 2        \* distinct article links
MaxItems == 2       \* longest news_list handed to save_news_bulk

URLs == 1..NumURLs

None == "None"

(***************************************************************************)
(* Dates.  get_kst_today() formats the day as 'YYYY-MM-DD'; the table      *)
(* keeps it as TEXT and SQLite compares TEXT left to right, which for the  *)
(* zero-padded format is the comparison of <<year, month, day>>.           *)
(***************************************************************************)
Calendar == << <<2025, 12, 31>>, <<2026, 1, 1>> >>

get_kst_today(dayIndex) == Calendar[dayIndex]

TextLess(a, b) ==
    \/ a[1] < b[1]
    \/ a[1] = b[1] /\ a[2] < b[2]
    \/ a[1] = b[1] /\ a[2] = b[2] /\ a[3] < b[3]

(***************************************************************************)
(* Curated items as the provider returns them (dicts), and one value that  *)
(* is no dict at all (item.get raises and the row is skipped).  A call's   *)
(* items come from one curation request, so they share its category and,   *)
(* here, its wording (Variants).                                           *)
(***************************************************************************)
NoSummary == [kind |-> "none", val |-> << >>]
StrSummary == [kind |-> "str", val |-> <<"s1">>]
ListSummary == [kind |-> "list", val |-> <<"l1", "l2">>]

Variants ==
    { [title |-> "t1", summary |-> ListSummary, category |-> "Economy"],
      [title |-> "t2", summary |-> StrSummary, category |-> "Society"] }

VariantOf(category) == CHOOSE v \in Variants : v.category = category

NotADict ==
    [isdict |-> FALSE, title |-> None, summary |-> NoSummary, link |-> 0,
     category |-> None]

Item(u, v) ==
    [isdict |-> TRUE, title |-> v.title, summary |-> v.summary, link |-> u,
     category |-> v.category]

SeqsUpTo(S, n) == UNION { [1..m -> S] : m \in 0..n }

\* The code compares links only for equality, so links are numbered in the order
\* in which they first reach the Store: a list may repeat any link and brings new
\* links as known + 1, known + 2, ...; 0 stands for the non-dict value.
RECURSIVE InOrder(_, _)
InOrder(links, known) ==
    \/ links = << >>
    \/ /\ Head(links) <= known + 1
       /\ InOrder(Tail(links), IF Head(links) = known + 1 THEN known + 1 ELSE known)

AllLinkLists == SeqsUpTo(0..NumURLs, MaxItems)

LinkListsFrom == [known \in 0..NumURLs |-> { l \in AllLinkLists : InOrder(l, known) }]

LinkLists(known) ==
    IF known \in DOMAIN LinkListsFrom THEN LinkListsFrom[known] ELSE LinkListsFrom[NumURLs]

NewsList(links, v) ==
    [k \in 1..Len(links) |-> IF links[k] = 0 THEN NotADict ELSE Item(links[k], v)]

(***************************************************************************)
(* DatabaseManager: the news table.                                        *)
(***************************************************************************)

\* url TEXT UNIQUE: a row with this url is already in the table
UrlConflictNoConstraint(rows, url) == FALSE

UrlConflict(rows, url) == \E i \in 1..Len(rows) : rows[i].url = url

check_url_exists(rows, url) == \E i \in 1..Len(rows) : rows[i].url = url

\* summary_txt: a list is joined line by line, a non-empty string is kept,
\* anything falsy becomes the empty text (no lines)
SummaryText(summary_raw) ==
    IF summary_raw.kind = "list" THEN summary_raw.val
    ELSE IF summary_raw.kind = "str" /\ summary_raw.val # << >> THEN summary_raw.val
    ELSE << >>

NewRow(rows, item, date) ==
    [id |-> Len(rows) + 1, date |-> date, title |-> item.title,
     summary |-> SummaryText(item.summary), url |-> item.link,
     category |-> item.category, is_saved |-> 0, user_note |-> "",
     telegram_sent |-> 0]

\* INSERT OR REPLACE in place of INSERT OR IGNORE
InsertOrReplace(rows, item, date) ==
    IF UrlConflict(rows, item.link)
    THEN [rows |-> [i \in 1..Len(rows) |->
                      IF rows[i].url = item.link
                      THEN [NewRow(rows, item, date) EXCEPT !.id = rows[i].id]
                      ELSE rows[i]],
          rowcount |-> 1]
    ELSE [rows |-> Append(rows, NewRow(rows, item, date)), rowcount |-> 1]

\* INSERT OR IGNORE INTO news (...) VALUES (?, ?, ?, ?, ?, 0, '') and c.rowcount
InsertOrIgnore(rows, item, date) ==
    IF UrlConflict(rows, item.link)
    THEN [rows |-> rows, rowcount |-> 0]
    ELSE [rows |-> Append(rows, NewRow(rows, item, date)), rowcount |-> 1]

\* count += 1 whatever c.rowcount says
CountEveryItem(count, rowcount) == count + 1

\* if c.rowcount > 0: count += 1
CountInserted(count, rowcount) == IF rowcount > 0 THEN count + 1 ELSE count

\* One turn of the loop over news_list.  A non-dict item raises inside the try
\* and is only logged.
SaveItem(acc, item, date) ==
    IF ~item.isdict
    THEN [acc EXCEPT !.outcomes = Append(acc.outcomes, "error")]
    ELSE LET r == InsertOrIgnore(acc.rows, item, date)
         IN  [rows |-> r.rows, count |-> CountInserted(acc.count, r.rowcount),
              outcomes |-> Append(acc.outcomes,
                                  IF r.rowcount > 0 THEN "inserted" ELSE "ignored")]

RECURSIVE SaveLoop(_, _, _)
SaveLoop(acc, news_list, date) ==
    IF news_list = << >> THEN acc
    ELSE SaveLoop(SaveItem(acc, Head(news_list), date), Tail(news_list), date)

save_news_bulk(rows, news_list, date) ==
    IF news_list = << >>
    THEN [rows |-> rows, count |-> 0, outcomes |-> << >>]
    ELSE SaveLoop([rows |-> rows, count |-> 0, outcomes |-> << >>], news_list, date)

\* UPDATE news SET telegram_sent = 1 - telegram_sent
MarkToggles(rows, news_ids) ==
    [i \in 1..Len(rows) |->
        IF rows[i].id \in news_ids
        THEN [rows[i] EXCEPT !.telegram_sent = 1 - rows[i].telegram_sent]
        ELSE rows[i]]

\* UPDATE news SET telegram_sent = 1 WHERE id = ?, for each id
mark_news_as_sent(rows, news_ids) ==
    IF news_ids = {} THEN rows
    ELSE [i \in 1..Len(rows) |->
            IF rows[i].id \in news_ids
            THEN [rows[i] EXCEPT !.telegram_sent = 1]
            ELSE rows[i]]

\* the row written anew, as INSERT OR REPLACE would, with the columns' defaults
ToggleRewritesRow(rows, news_id, is_saved) ==
    [i \in 1..Len(rows) |->
        IF rows[i].id = news_id
        THEN [rows[i] EXCEPT !.is_saved = is_saved, !.telegram_sent = 0]
        ELSE rows[i]]

\* UPDATE news SET is_saved = ? WHERE id = ?
toggle_news_save(rows, news_id, is_saved) ==
    [i \in 1..Len(rows) |->
        IF rows[i].id = news_id THEN [rows[i] EXCEPT !.is_saved = is_saved]
        ELSE rows[i]]

\* CREATE TABLE IF NOT EXISTS and ALTER TABLE ... ADD COLUMN ... DEFAULT: the
\* table exists and has the columns, so each statement leaves the rows alone
\* (the ALTERs raise "duplicate column name", which is passed over)
init_db(rows) == rows

\* UPDATE news SET user_note = ? WHERE id = ?
update_news_note(rows, news_id, note) ==
    [i \in 1..Len(rows) |->
        IF rows[i].id = news_id THEN [rows[i] EXCEPT !.user_note = note]
        ELSE rows[i]]

(***************************************************************************)
(* get_unsent_news.  A filter argument is None, the empty string, 'All'    *)
(* or a value; the first two are falsy.                                     *)
(***************************************************************************)
LIMIT == 10

NoDate == <<0, 0, 0>>

Filter(kind, val) == [kind |-> kind, val |-> val]

\* if category_filter and category_filter != "All"
FilterOn(f) == f.kind # "None" /\ f.kind # "empty" /\ f.kind # "All"

\* WHERE 1=1
AnyRow(row) == TRUE

\* WHERE telegram_sent = 0
Unsent(row) == row.telegram_sent = 0

\* ORDER BY date DESC, id DESC
RowAfter(a, b) ==
    \/ TextLess(b.date, a.date)
    \/ a.date = b.date /\ a.id > b.id

\* ORDER BY date ASC, id ASC
RowBefore(a, b) ==
    \/ TextLess(a.date, b.date)
    \/ a.date = b.date /\ a.id < b.id

RECURSIVE OrderBy(_)
OrderBy(S) ==
    IF S = {} THEN << >>
    ELSE LET first == CHOOSE x \in S : \A y \in S \ {x} : RowBefore(x, y)
         IN  <<first>> \o OrderBy(S \ {first})

\* the first n elements: LIMIT n, and the slice [:n]
FirstN(seq, n) == SubSeq(seq, 1, IF Len(seq) < n THEN Len(seq) ELSE n)

\* SELECT id, title, summary, url, date, category, is_saved
Selected(row) ==
    [id |-> row.id, title |-> row.title, summary |-> row.summary, url |-> row.url,
     date |-> row.date, category |-> row.category, is_saved |-> row.is_saved]

get_unsent_news(rows, category_filter, date_filter) ==
    LET matching ==
            { i \in 1..Len(rows) :
                /\ Unsent(rows[i])
                /\ FilterOn(category_filter) => rows[i].category = category_filter.val
                /\ FilterOn(date_filter) => rows[i].date = date_filter.val }
        ordered == FirstN(OrderBy({ rows[i] : i \in matching }), LIMIT)
    IN  [k \in 1..Len(ordered) |-> Selected(ordered[k])]

(***************************************************************************)
(* clean_json_response.  A response text is a sequence of pieces: prose    *)
(* (no JSON, no bracket, no fence), the fence marks ```json and ```, the   *)
(* brackets of an array, null, an object with no array and no fence in it  *)
(* ("obj"), an object one of whose strings holds ``` ("obj+fence"), and the   *)
(* wrapper object {"articles": value} as "{articles:" value "}".  Commas   *)
(* and white space are left out.  A JSON value is a record.                *)
(***************************************************************************)
JNull == [kind |-> "null", key |-> "", items |-> << >>]

JNumber == [kind |-> "number", key |-> "", items |-> << >>]

JList(items) == [kind |-> "list", key |-> "", items |-> items]

JDict(key, items) == [kind |-> "dict", key |-> key, items |-> items]

ParseFail == [ok |-> FALSE, val |-> JNull, next |-> 0]

ParseOk(val, next) == [ok |-> TRUE, val |-> val, next |-> next]

\* json.loads read from piece i on: the value and the piece after it
RECURSIVE ParseValue(_, _)
RECURSIVE ParseElems(_, _, _)
ParseValue(t, i) ==
    IF i > Len(t) THEN ParseFail
    ELSE IF t[i] = "null" THEN ParseOk(JNull, i + 1)
    ELSE IF t[i] = "3" THEN ParseOk(JNumber, i + 1)
    ELSE IF t[i] = "obj" THEN ParseOk(JDict("k", << >>), i + 1)
    ELSE IF t[i] = "obj+fence" THEN ParseOk(JDict("k+fence", << >>), i + 1)
    ELSE IF t[i] = "[" THEN ParseElems(t, i + 1, << >>)
    ELSE IF t[i] = "{articles:"
    THEN LET r == ParseValue(t, i + 1)
         IN  IF r.ok /\ r.next <= Len(t) /\ t[r.next] = "}"
             THEN ParseOk(JDict("articles", <<r.val>>), r.next + 1)
             ELSE ParseFail
    ELSE ParseFail

ParseElems(t, i, acc) ==
    IF i > Len(t) THEN ParseFail
    ELSE IF t[i] = "]" THEN ParseOk(JList(acc), i + 1)
    ELSE LET r == ParseValue(t, i)
         IN  IF r.ok THEN ParseElems(t, r.next, Append(acc, r.val)) ELSE ParseFail

\* json.loads(text): ok is FALSE for JSONDecodeError
json_loads(t) ==
    LET r == ParseValue(t, 1)
    IN  IF r.ok /\ r.next = Len(t) + 1 THEN r ELSE ParseFail

\* the pieces in which the characters ``` occur
HasFence(piece) == piece \in {"fence", "fence json", "obj+fence"}

\* re.search(r'```json\s*([\s\S]*?)\s*```', text): group(1) runs from the first
\* ```json to the first ``` after it, wherever that is; a ``` inside a piece
\* cuts the piece, and what is left of it is no JSON
FencedGroup(t) ==
    LET opens == { i \in 1..Len(t) :
                     t[i] = "fence json" /\ \E j \in (i + 1)..Len(t) : HasFence(t[j]) }
    IN  IF opens = {} THEN [found |-> FALSE, group |-> << >>]
        ELSE LET i == CHOOSE x \in opens : \A y \in opens : x <= y
                 j == CHOOSE x \in (i + 1)..Len(t) :
                         /\ HasFence(t[x])
                         /\ \A y \in (i + 1)..(x - 1) : ~HasFence(t[y])
             IN  [found |-> TRUE,
                  group |-> SubSeq(t, i + 1, j - 1)
                               \o (IF t[j] = "obj+fence" THEN <<"cut">> ELSE << >>)]

\* re.search(r'\[[\s\S]*\]', text): from the first [ to the last ] after it
ArrayPattern(t) ==
    LET opens == { i \in 1..Len(t) :
                     t[i] = "[" /\ \E j \in (i + 1)..Len(t) : t[j] = "]" }
    IN  IF opens = {} THEN [found |-> FALSE, group |-> << >>]
        ELSE LET i == CHOOSE x \in opens : \A y \in opens : x <= y
                 j == CHOOSE x \in (i + 1)..Len(t) :
                         t[x] = "]" /\ \A y \in (x + 1)..Len(t) : t[y] # "]"
             IN  [found |-> TRUE, group |-> SubSeq(t, i, j)]

clean_json_response(t) ==
    LET whole == json_loads(t)
        fence == FencedGroup(t)
        block == json_loads(fence.group)
        array == ArrayPattern(t)
        inner == json_loads(array.group)
    IN  IF whole.ok THEN whole.val
        ELSE IF fence.found /\ block.ok THEN block.val
        ELSE IF array.found /\ inner.ok THEN inner.val
        ELSE JList(<< >>)

storeVars == <<news, today, lastCall>>
aiVars == <<clients, aipc, provider, attempt, trace, waits, result, curated>>
queryVars == <<query>>
botVars ==
    <<clock, ticked, last_news_execution, sentCount, lastSend, firings, failedBatch>>
parseVars == <<text, parsed>>
runVars == <<run, scenario>>
settingsVars == <<schedule_str, notice>>
loopVars == <<pc, loopClock, last_vocab_execution, raised, beat, drillRef>>
chanVars == <<sendCall>>
fetchVars == <<fetching>>
cardVars == <<card>>
hookVars == <<vocab, hook>>
serviceVars == <<services>>
vars ==
    <<news, today, lastCall, clients, aipc, provider, attempt, trace, waits, result,
      curated, query, clock, ticked, last_news_execution, sentCount, lastSend,
      firings, failedBatch, run, scenario, text, parsed, schedule_str, notice,
      pc, loopClock, last_vocab_execution, raised, beat, drillRef, sendCall,
      fetching, card, vocab, hook, services>>

\* what the actions of one part leave alone
outsideStore == <<aiVars, queryVars, botVars, parseVars, runVars, settingsVars, loopVars, chanVars, fetchVars, cardVars, hookVars, serviceVars>>
outsideAI == <<storeVars, queryVars, botVars, parseVars, runVars, settingsVars, loopVars, chanVars, fetchVars, cardVars, hookVars, serviceVars>>
outsideQuery == <<storeVars, aiVars, botVars, parseVars, runVars, settingsVars, loopVars, chanVars, fetchVars, cardVars, hookVars, serviceVars>>
outsideBot == <<lastCall, aiVars, queryVars, parseVars, runVars, settingsVars, loopVars, chanVars, fetchVars, cardVars, hookVars, serviceVars>>
outsideParse == <<storeVars, aiVars, queryVars, botVars, runVars, settingsVars, loopVars, chanVars, fetchVars, cardVars, hookVars, serviceVars>>
outsideRun == <<lastCall, aiVars, queryVars, botVars, parseVars, settingsVars, loopVars, chanVars, fetchVars, cardVars, hookVars, serviceVars>>
outsideSettings == <<storeVars, aiVars, queryVars, botVars, parseVars, runVars, loopVars, chanVars, fetchVars, cardVars, hookVars, serviceVars>>
outsideLoop == <<lastCall, aiVars, queryVars, parseVars, runVars, settingsVars, chanVars, fetchVars, cardVars, hookVars, serviceVars>>
outsideChan ==
    <<storeVars, aiVars, queryVars, botVars, parseVars, runVars, settingsVars, loopVars, fetchVars, cardVars, hookVars, serviceVars>>
outsideFetch ==
    <<lastCall, aiVars, queryVars, botVars, parseVars, runVars, settingsVars, loopVars, chanVars, cardVars, hookVars, serviceVars>>
outsideCard ==
    <<storeVars, aiVars, queryVars, botVars, parseVars, runVars, settingsVars, loopVars, chanVars, fetchVars, hookVars, serviceVars>>
outsideHook ==
    <<storeVars, aiVars, queryVars, botVars, parseVars, runVars, settingsVars, loopVars, chanVars, fetchVars, cardVars, serviceVars>>
outsideServices ==
    <<storeVars, aiVars, queryVars, botVars, parseVars, runVars, chanVars, fetchVars, cardVars, hookVars>>

\* lastCall: op, the call; pre, the number of rows before it; ret, the value
\* returned; empty, its list was empty; dup, some link of its list was in the
\* table before it; allPresent, every item of its list was such a link;
\* dupErrors, the inserts of dict items that raised; ids, the ids it was given;
\* repeat, the call before was the same call.
NoCall ==
    [op |-> "none", pre |-> 0, ret |-> 0, empty |-> FALSE, dup |-> FALSE,
     allPresent |-> FALSE, dupErrors |-> 0, ids |-> {}, repeat |-> FALSE]

StoreInit ==
    /\ news = << >>
    /\ today = 1
    /\ lastCall = NoCall

\* an AIAgent on which no call is running
AIIdle ==
    /\ aipc = "idle"
    /\ provider = "none"
    /\ attempt = 0
    /\ trace = << >>
    /\ waits = << >>
    /\ result = "pending"
    /\ curated = "pending"

\* no get_unsent_news call was made yet
NoQuery ==
    [called |-> FALSE, category_filter |-> Filter("None", ""),
     date_filter |-> Filter("None", NoDate), rows |-> << >>]

QueryIdle == query = NoQuery

\* telegram_bot.main: the schedule is fixed in the code
news_schedule_times == <<"06:00", "12:00", "18:00">>

ScheduleTimes == { news_schedule_times[k] : k \in 1..Len(news_schedule_times) }

\* last_news_execution of one schedule time: absent from the dict, or the day
\* and the hour of the datetime kept for it
NoExec == [set |-> FALSE, day |-> 0, hour |-> 0]

NoSend == [calls |-> 0, sent |-> FALSE, fetched |-> << >>, included |-> << >>]

\* no bot process has run yet
BotIdle ==
    /\ clock = 1
    /\ ticked = FALSE
    /\ last_news_execution = [s \in ScheduleTimes |-> NoExec]
    /\ sentCount = << >>
    /\ lastSend = NoSend
    /\ firings = 0
    /\ failedBatch = {}

\* clean_json_response was not called
NotParsed == [done |-> FALSE, val |-> JNull]

ParseIdle ==
    /\ text = << >>
    /\ parsed = NotParsed

\* no curation run was made
NoRun ==
    [tick |-> 0, category |-> "", feed |-> << >>, called |-> FALSE, passed |-> << >>,
     curated |-> 0, count |-> 0]

RunIdle ==
    /\ run = NoRun
    /\ scenario = [stage |-> 0, ids |-> {}]

\* no row of the settings table has the key
NoSetting == << >>

SettingsIdle ==
    /\ schedule_str = NoSetting
    /\ notice = "none"

Loops == {"telegram_bot", "news_scheduler"}

NoVocab == [set |-> FALSE, at |-> 0]

NoBeat == [news |-> FALSE, drill |-> FALSE]

NoSendCall ==
    [called |-> FALSE, text |-> "", markup |-> "None", requests |-> 0,
     answer |-> [raises |-> "none", status_code |-> 0], ret |-> FALSE, raised |-> FALSE]

NoFetch ==
    [fn |-> "none", state |-> "idle", how |-> "none", i |-> 0, total |-> 0, good |-> 0,
     seen |-> {}, failed |-> {}, ret |-> 0]

NoMessage == [head |-> "none", entries |-> << >>]

NoCard ==
    [called |-> FALSE, items |-> << >>, count |-> 0, message |-> NoMessage,
     reply_markup |-> [kind |-> "None", inline_keyboard |-> << >>]]

NoHook ==
    [turn |-> 0, kind |-> "none", answers |-> 0, sends |-> 0, words |-> {},
     response |-> "none"]

NoServices == << >>

\* nothing but the Store, the AIAgent and the loops is in use
RestIdle ==
    /\ sendCall = NoSendCall
    /\ fetching = NoFetch
    /\ card = NoCard
    /\ vocab = << >>
    /\ hook = NoHook
    /\ services = NoServices

\* neither scheduling process is running
LoopIdle ==
    /\ pc = [l \in Loops |-> "off"]
    /\ loopClock = 1
    /\ last_vocab_execution = NoVocab
    /\ raised = [l \in Loops |-> "none"]
    /\ beat = NoBeat
    /\ drillRef = 0

(***************************************************************************)
(* Store calls.  Every call opens its own connection and ends in one       *)
(* commit; SQLite admits one write transaction at a time, so a call takes  *)
(* effect as one step with respect to every other connection.              *)
(***************************************************************************)

\* save_news_bulk(news_list) by any writer (background curation, UI curation)
SaveCall(links, r, present) ==
    [rows |-> r.rows,
     call |-> [NoCall EXCEPT
                 !.op = "save_news_bulk", !.pre = Len(news), !.ret = r.count,
                 !.empty = (links = << >>), !.dup = (present # {}),
                 !.allPresent = (links # << >> /\ present = 1..Len(links)),
                 !.dupErrors = Cardinality({ k \in 1..Len(links) :
                                  links[k] # 0 /\ r.outcomes[k] = "error" })]]

\* the wording shows in inserted rows only: a list that brings no new link is
\* followed for one wording
WordingsFor(links, variants) ==
    IF \A k \in 1..Len(links) : links[k] = 0 \/ check_url_exists(news, links[k])
    THEN { CHOOSE w \in variants : TRUE }
    ELSE variants

\* what the call with this list may leave: the table and the history
SaveCallsWith(links, variants) ==
    UNION { { SaveCall(links, r, present) :
                r \in { save_news_bulk(news, NewsList(links, v), get_kst_today(today)) },
                present \in { { k \in 1..Len(links) : check_url_exists(news, links[k]) } } } :
            v \in WordingsFor(links, variants) }

SaveCalls(variants) ==
    UNION { SaveCallsWith(links, variants) : links \in LinkLists(Len(news)) }

SaveNewsBulkOf(variants) ==
    \E c \in SaveCalls(variants) :
        /\ news' = c.rows
        /\ lastCall' = c.call
        /\ UNCHANGED <<today, outsideStore>>

SaveNewsBulk == SaveNewsBulkOf(Variants)

\* mark_news_as_sent(news_ids), ids of rows present or not
MarkNewsAsSent ==
    \E news_ids \in SUBSET (1..(NumURLs + 1)) :
        /\ news' = mark_news_as_sent(news, news_ids)
        /\ lastCall' = [NoCall EXCEPT
                !.op = "mark_news_as_sent", !.ids = news_ids,
                !.repeat = (lastCall.op = "mark_news_as_sent" /\ lastCall.ids = news_ids)]
        /\ UNCHANGED <<today, outsideStore>>

\* The user's scrap book.  No Store operation relates one row to another, so
\* the user is taken to work on the oldest article only.

\* the feed tab's scrap button, shown for a row not yet saved
ScrapNews ==
    /\ Len(news) > 0
    /\ news[1].is_saved = 0
    /\ news' = toggle_news_save(news, news[1].id, 1)
    /\ lastCall' = [NoCall EXCEPT !.op = "toggle_news_save"]
    /\ UNCHANGED <<today, outsideStore>>

\* the scrap tab's delete button, shown for a saved row
UnscrapNews ==
    /\ Len(news) > 0
    /\ news[1].is_saved = 1
    /\ news' = toggle_news_save(news, news[1].id, 0)
    /\ lastCall' = [NoCall EXCEPT !.op = "toggle_news_save"]
    /\ UNCHANGED <<today, outsideStore>>

\* the scrap tab's memo, shown for a saved row
SaveNote ==
    \E note \in {"", "memo"} :
        /\ Len(news) > 0
        /\ news[1].is_saved = 1
        /\ news' = update_news_note(news, news[1].id, note)
        /\ lastCall' = [NoCall EXCEPT !.op = "update_news_note"]
        /\ UNCHANGED <<today, outsideStore>>

\* a process starts and builds its DatabaseManager
InitDb ==
    /\ news' = init_db(news)
    /\ lastCall' = [NoCall EXCEPT !.op = "_init_db"]
    /\ UNCHANGED <<today, outsideStore>>

\* midnight (KST) passes
NextDay ==
    /\ today < Len(Calendar)
    /\ today' = today + 1
    /\ UNCHANGED <<news, lastCall, outsideStore>>

StoreNext ==
    \/ SaveNewsBulk
    \/ MarkNewsAsSent
    \/ ScrapNews
    \/ UnscrapNews
    \/ SaveNote
    \/ NextDay

NoClients == [xai |-> FALSE, groq |-> FALSE, gemini |-> FALSE]

StoreSpecInit ==
    /\ StoreInit
    /\ clients = NoClients
    /\ AIIdle
    /\ QueryIdle
    /\ BotIdle
    /\ ParseIdle
    /\ RunIdle
    /\ SettingsIdle
    /\ LoopIdle
    /\ RestIdle

SpecStore == StoreSpecInit /\ [][StoreNext]_vars

(***************************************************************************)
(* Properties of the Store, under SpecStore.                               *)
(***************************************************************************)

UrlUnique == \A i, j \in 1..Len(news) : news[i].url = news[j].url => i = j

\* C2: after any sequence of save_news_bulk calls (the writers' calls in any
\* order, repeated lists included) no two rows of the news table have the same
\* url, and a call whose links are all in the table already adds no row and
\* no insert of a link already present raises.
C2_UrlUnique ==
    /\ UrlUnique
    /\ lastCall.op = "save_news_bulk" =>
          /\ lastCall.dupErrors = 0
          /\ lastCall.allPresent => Len(news) = lastCall.pre

\* a call that brought one link already stored and one new link
C2_Witness ==
    /\ lastCall.op = "save_news_bulk"
    /\ lastCall.dup
    /\ lastCall.ret > 0
    /\ Len(news) = NumURLs

\* C3: save_news_bulk returns the number of rows it inserted (rows after minus
\* rows before): 0 for a list whose links were all stored before the call, and
\* 0 for the empty list.
C3_InsertedCount ==
    lastCall.op = "save_news_bulk" =>
        /\ lastCall.ret = Len(news) - lastCall.pre
        /\ lastCall.allPresent => lastCall.ret = 0
        /\ lastCall.empty => lastCall.ret = 0

\* a non-empty list of links stored by an earlier call came back with 0
C3_Witness ==
    /\ lastCall.op = "save_news_bulk"
    /\ lastCall.allPresent
    /\ lastCall.pre > 0
    /\ lastCall.ret = 0

\* C4: a save_news_bulk call leaves every row that was in the table before it
\* as it was, field by field (date, title, summary, category, telegram_sent,
\* is_saved, user_note), the rows whose url the call brings again included.
C4_DuplicateKeepsRow ==
    [][lastCall'.op = "save_news_bulk" =>
          /\ Len(news') >= Len(news)
          /\ \A i \in 1..Len(news) : news'[i] = news[i]]_vars

\* the only row, sent, scrapped and annotated on an earlier day, was brought again
C4_Witness ==
    /\ lastCall.op = "save_news_bulk"
    /\ lastCall.dup
    /\ lastCall.pre = 1
    /\ news[1].telegram_sent = 1
    /\ news[1].is_saved = 1
    /\ news[1].user_note = "memo"
    /\ news[1].date # get_kst_today(today)

\* C5: mark_news_as_sent(ids) sets telegram_sent = 1 on the rows with these ids
\* and changes nothing else; a second call with the same ids changes nothing;
\* a call with no ids changes nothing; ids of no row are accepted.
C5_MarkIdempotent ==
    [][lastCall'.op = "mark_news_as_sent" =>
          /\ Len(news') = Len(news)
          /\ \A i \in 1..Len(news) :
                news'[i] = IF news[i].id \in lastCall'.ids
                           THEN [news[i] EXCEPT !.telegram_sent = 1]
                           ELSE news[i]
          /\ mark_news_as_sent(news', lastCall'.ids) = news'
          /\ lastCall'.repeat => news' = news
          /\ lastCall'.ids = {} => news' = news]_vars

\* the same ids were marked twice in a row, with a row among them and a row not
C5_Witness ==
    /\ lastCall.op = "mark_news_as_sent"
    /\ lastCall.repeat
    /\ \E i \in 1..Len(news) : news[i].id \in lastCall.ids /\ news[i].telegram_sent = 1
    /\ \E j \in 1..Len(news) : news[j].id \notin lastCall.ids /\ news[j].telegram_sent = 0
    /\ \E k \in lastCall.ids : k > Len(news)

\* save_news_bulk with the articles of one curation request for Economy
SaveEconomyNews == SaveNewsBulkOf({ VariantOf("Economy") })

\* every statement of app.py that writes the news table, and _init_db
FlagsNext ==
    \/ SaveEconomyNews
    \/ MarkNewsAsSent
    \/ ScrapNews
    \/ UnscrapNews
    \/ SaveNote
    \/ InitDb
    \/ NextDay

SpecFlags == StoreSpecInit /\ [][FlagsNext]_vars

\* C23: under SpecFlags, a row is inserted with telegram_sent = 0; the flag of
\* a row changes only in a mark_news_as_sent call and never from 1 to 0; and a
\* mark_news_as_sent call leaves is_saved and user_note of every row as they
\* were.
C23_DeliveredFlag ==
    [][/\ Len(news') >= Len(news)
       /\ \A i \in (Len(news) + 1)..Len(news') : news'[i].telegram_sent = 0
       /\ \A i \in 1..Len(news) :
             /\ news'[i].telegram_sent # news[i].telegram_sent
                   => lastCall'.op = "mark_news_as_sent"
             /\ news[i].telegram_sent = 1 => news'[i].telegram_sent = 1
             /\ lastCall'.op = "mark_news_as_sent"
                   => /\ news'[i].is_saved = news[i].is_saved
                      /\ news'[i].user_note = news[i].user_note]_vars

\* a sent row was taken out of the scrap book, after another row came in
C23_Witness ==
    /\ lastCall.op = "toggle_news_save"
    /\ Len(news) > 1
    /\ news[1].telegram_sent = 1
    /\ news[1].is_saved = 0
    /\ news[1].user_note = "memo"
    /\ news[2].telegram_sent = 0

(***************************************************************************)
(* AIAgent: the provider retry wrappers and curate_news.                   *)
(***************************************************************************)
max_retries == 3        \* the wrappers' default, which every caller uses
JitterScale == 2        \* one time unit is JitterScale ticks of the model's clock

\* What a request can raise, as the text str(e) of the exception.
ErrorTexts ==
    { "Error code: 429", "RESOURCE_EXHAUSTED", "Rate_Limit reached",
      "401 Unauthorized", "Request timed out." }

Outcomes == {"ok"} \cup ErrorTexts

\* '429' in error_str
Has429(e) == e = "Error code: 429"

\* 'RESOURCE_EXHAUSTED' in error_str
HasResourceExhausted(e) == e = "RESOURCE_EXHAUSTED"

\* 'rate_limit' in error_str.lower()
HasRateLimitLower(e) == e = "Rate_Limit reached"

\* every exception is taken for a rate limit
RetryAnyError(p, e) == TRUE

\* the rate-limit test of each wrapper's except clause
IsRateLimit(p, e) ==
    IF p = "gemini" THEN Has429(e) \/ HasResourceExhausted(e)
    ELSE Has429(e) \/ HasRateLimitLower(e)

\* attempt < max_retries
RetryThroughLast(a) == a < max_retries

\* if attempt < max_retries - 1
ShouldRetry(a) == a < max_retries - 1

\* 2 ** attempt in place of 2 ** (attempt + 1)
WaitTimeFromOne(a, jitter) == (2 ^ a) * JitterScale + jitter

\* wait_time = (2 ** (attempt + 1)) + random.uniform(0, 1), in clock ticks
WaitTime(a, jitter) == (2 ^ (a + 1)) * JitterScale + jitter

\* if self.xai_client: ... elif self.groq_client: ... else: ...
SelectProvider(c) ==
    IF c.xai THEN "xai" ELSE IF c.groq THEN "groq" ELSE "gemini"

Configured(c) ==
    { p \in {"xai", "groq", "gemini"} : c[p] }

\* AIAgent.__init__: each client is set when its key is given and its
\* construction does not raise
AIInit ==
    /\ clients \in [xai : BOOLEAN, groq : BOOLEAN, gemini : BOOLEAN]
    /\ AIIdle
    /\ StoreInit
    /\ QueryIdle
    /\ BotIdle
    /\ ParseIdle
    /\ RunIdle
    /\ SettingsIdle
    /\ LoopIdle
    /\ RestIdle

\* curate_news is called: no client at all returns [] at once, otherwise the
\* first client in the order xai, groq, gemini gets the request
CurateNews ==
    /\ aipc = "idle"
    /\ IF Configured(clients) = {}
       THEN /\ aipc' = "done"
            /\ curated' = "empty"
            /\ UNCHANGED provider
       ELSE /\ aipc' = "request"
            /\ provider' = SelectProvider(clients)
            /\ UNCHANGED curated
    /\ UNCHANGED <<clients, attempt, trace, waits, result, outsideAI>>

\* What a provider may answer: an array of articles, bare or in a json fence,
\* one article object, the wrapper object, null, a number, plain prose.
ResponseTexts ==
    { <<"[", "obj", "]">>, <<"fence json", "[", "obj", "]", "fence">>, <<"obj">>,
      <<"{articles:", "[", "obj", "]", "}">>, <<"{articles:", "null", "}">>,
      <<"null">>, <<"3">>, <<"prose">> }

\* the xai and groq branches: if isinstance(result, dict) and 'articles' in
\* result: return result['articles']; the gemini branch returns the value as is
Unwrapped(p, v) ==
    IF p # "gemini" /\ v.kind = "dict" /\ v.key = "articles" THEN v.items[1] ELSE v

\* the request of this attempt succeeds: the wrapper returns the response and
\* curate_news returns what clean_json_response makes of its text
RequestSucceeds ==
    /\ aipc = "request"
    /\ trace' = Append(trace, "ok")
    /\ result' = "response"
    /\ \E t \in ResponseTexts :
          curated' = Unwrapped(provider, clean_json_response(t)).kind
    /\ aipc' = "done"
    /\ UNCHANGED <<clients, provider, attempt, waits, outsideAI>>

\* the request raises a rate-limit error and attempts are left: the wrapper
\* sleeps wait_time and goes round the loop; a loop that runs out returns None
RequestRateLimited ==
    \E e \in ErrorTexts, jitter \in 0..JitterScale :
        /\ aipc = "request"
        /\ IsRateLimit(provider, e)
        /\ ShouldRetry(attempt)
        /\ trace' = Append(trace, e)
        /\ waits' = Append(waits, WaitTime(attempt, jitter))
        /\ attempt' = attempt + 1
        /\ IF attempt + 1 < max_retries
           THEN UNCHANGED <<aipc, result, curated>>
           ELSE /\ aipc' = "done"
                /\ result' = "None"
                /\ curated' = "empty"
        /\ UNCHANGED <<clients, provider, outsideAI>>

\* the request raises another error, or a rate-limit error on the last attempt:
\* the wrapper raises it, and curate_news logs it and returns []
RequestFails ==
    \E e \in ErrorTexts :
        /\ aipc = "request"
        /\ ~(IsRateLimit(provider, e) /\ ShouldRetry(attempt))
        /\ trace' = Append(trace, e)
        /\ result' = "raised"
        /\ curated' = "empty"
        /\ aipc' = "done"
        /\ UNCHANGED <<clients, provider, attempt, waits, outsideAI>>

AINext ==
    \/ CurateNews
    \/ RequestSucceeds
    \/ RequestRateLimited
    \/ RequestFails

SpecAI == AIInit /\ [][AINext]_vars

\* Errors of no rate-limit class for any provider: a refused credential, a timeout.
HardErrors == { "401 Unauthorized", "Request timed out." }

\* the requests of the call so far were all answered by a rate-limit error
AllRateLimited(n) ==
    \A i \in 1..n : trace[i] \in ErrorTexts /\ IsRateLimit(provider, trace[i])

\* C7: a wrapper whose provider answers the first k requests (k < max_retries)
\* with a rate-limit error and the next one with a response returns that
\* response after exactly k + 1 requests; a wrapper whose provider answers every
\* request with a rate-limit error makes exactly max_retries requests and raises.
C7_RetryCount ==
    /\ Len(trace) <= max_retries
    /\ (aipc = "request" /\ AllRateLimited(Len(trace))) => Len(trace) < max_retries
    /\ (aipc = "done" /\ trace # << >> /\ trace[Len(trace)] = "ok")
          => /\ result = "response"
             /\ AllRateLimited(Len(trace) - 1)
             /\ Len(trace) - 1 < max_retries
    /\ (aipc = "done" /\ trace # << >> /\ AllRateLimited(Len(trace)))
          => /\ Len(trace) = max_retries
             /\ result = "raised"

\* every one of the max_retries requests was rate limited and the call raised
C7_Witness ==
    /\ aipc = "done"
    /\ Len(trace) = max_retries
    /\ AllRateLimited(Len(trace))
    /\ result = "raised"
    /\ provider = "groq"

\* C8: the wait after the n-th rate-limited request is 2^n time units plus a
\* jitter of at most one time unit, successive waits strictly increase, and a
\* request that ends the call (a response, or the final failure) has no wait
\* after it.
C8_Backoff ==
    /\ \A n \in 1..Len(waits) :
          /\ waits[n] >= (2 ^ n) * JitterScale
          /\ waits[n] <= (2 ^ n) * JitterScale + JitterScale
    /\ \A n \in 1..(Len(waits) - 1) : waits[n] < waits[n + 1]
    /\ aipc = "request" => Len(waits) = Len(trace)
    /\ (aipc = "done" /\ trace # << >>) => Len(waits) = Len(trace) - 1

\* two waits, the first with the largest jitter and the second with none, and
\* then the final failure
C8_Witness ==
    /\ aipc = "done"
    /\ result = "raised"
    /\ Len(trace) = max_retries
    /\ Len(waits) = 2
    /\ waits[1] = 2 * JitterScale + JitterScale
    /\ waits[2] = 4 * JitterScale

\* C9: a request answered by an error of no rate-limit class is the last request
\* of the call, whatever its number: the wrapper raises at once, with no wait
\* after it and no further request.
C9_HardErrorRaises ==
    \A i \in 1..Len(trace) :
        trace[i] \in HardErrors
            => /\ i = Len(trace)
               /\ aipc = "done"
               /\ result = "raised"
               /\ Len(waits) = i - 1

\* the second request, made after one rate-limited request and its wait, was
\* refused for its credential
C9_Witness ==
    /\ aipc = "done"
    /\ Len(trace) = 2
    /\ IsRateLimit(provider, trace[1])
    /\ trace[2] = "401 Unauthorized"
    /\ result = "raised"
    /\ Len(waits) = 1

\* C11: whatever the clients and whatever the provider does or answers,
\* curate_news returns an array.  The code passes on whatever
\* clean_json_response parsed, an object, null or a number too, so this does
\* not hold.
C11_ReturnsArray ==
    aipc = "done" => curated \in {"empty", "list"}

\* C10: curate_news returns empty after a provider failure only if every
\* configured provider was tried and failed. curate_news asks the first
\* configured provider alone, so this does not hold.
C10_FallThrough ==
    (aipc = "done" /\ curated = "empty" /\ provider # "none")
        => Configured(clients) \subseteq { provider }

(***************************************************************************)
(* get_unsent_news as a function of the table and its two filters.         *)
(***************************************************************************)
MaxQueryRows == 12      \* rows of the largest table queried

\* A table as the pipeline leaves it: ids in order of insertion, the rows of
\* the first day before those of the second, categories alike or in turn, and
\* the sent rows a run of the oldest ones, with or without the newest one.
QueryStore(n, firstDay, inTurn, sentUpTo, newestSent) ==
    [i \in 1..n |->
        [NewRow(<< >>,
                Item(i, VariantOf(IF inTurn /\ i % 2 = 0 THEN "Society" ELSE "Economy")),
                get_kst_today(IF i <= firstDay THEN 1 ELSE 2))
            EXCEPT !.id = i,
                   !.telegram_sent =
                        IF i <= sentUpTo \/ (newestSent /\ i = n) THEN 1 ELSE 0]]

CategoryFilters ==
    { Filter("None", ""), Filter("empty", ""), Filter("All", "All"),
      Filter("value", "Economy"), Filter("value", "Society") }

DateFilters ==
    { Filter("None", NoDate), Filter("All", NoDate) }
        \cup { Filter("value", get_kst_today(d)) : d \in 1..Len(Calendar) }

QueryInit ==
    /\ \E n \in 0..MaxQueryRows :
         \E firstDay \in 0..n, sentUpTo \in 0..n, inTurn \in BOOLEAN, newestSent \in BOOLEAN :
            news = QueryStore(n, firstDay, inTurn, sentUpTo, newestSent)
    /\ today = Len(Calendar)
    /\ lastCall = NoCall
    /\ clients = NoClients
    /\ AIIdle
    /\ QueryIdle
    /\ BotIdle
    /\ ParseIdle
    /\ RunIdle
    /\ SettingsIdle
    /\ LoopIdle
    /\ RestIdle

\* db.get_unsent_news(category_filter, date_filter)
GetUnsentNews ==
    \E c \in CategoryFilters, d \in DateFilters :
        /\ query' = [called |-> TRUE, category_filter |-> c, date_filter |-> d,
                     rows |-> get_unsent_news(news, c, d)]
        /\ UNCHANGED outsideQuery

QueryNext == GetUnsentNews

SpecQuery == QueryInit /\ [][QueryNext]_vars

\* the rows of the table that the filters of the last call admit
QueryMatching ==
    { i \in 1..Len(news) :
        /\ news[i].telegram_sent = 0
        /\ query.category_filter.kind = "value"
              => news[i].category = query.category_filter.val
        /\ query.date_filter.kind = "value" => news[i].date = query.date_filter.val }

\* C6: get_unsent_news returns rows of the table that are unsent and pass the
\* category and date filters given (None, '' and 'All' filter nothing), in
\* ascending order of date and then id, and they are the first LIMIT (or all)
\* of the rows that match: every matching row left out comes after each row
\* returned.
C6_UnsentQuery ==
    query.called =>
        /\ \A k \in 1..Len(query.rows) :
              \E i \in QueryMatching : query.rows[k] = Selected(news[i])
        /\ \A k \in 1..(Len(query.rows) - 1) :
              RowBefore(query.rows[k], query.rows[k + 1])
        /\ Len(query.rows) =
              IF Cardinality(QueryMatching) < LIMIT THEN Cardinality(QueryMatching)
              ELSE LIMIT
        /\ \A i \in QueryMatching :
              (\A k \in 1..Len(query.rows) : query.rows[k].id # news[i].id)
                  => \A k \in 1..Len(query.rows) : RowBefore(query.rows[k], news[i])

\* more than LIMIT rows matched, of two days, in a table with a sent row, and
\* LIMIT rows came back
C6_Witness ==
    /\ query.called
    /\ Cardinality(QueryMatching) > LIMIT
    /\ Len(query.rows) = LIMIT
    /\ query.rows[1].date # query.rows[LIMIT].date
    /\ \E i \in 1..Len(news) : news[i].telegram_sent = 1

(***************************************************************************)
(* The delivery scheduler (telegram_bot.py) against the Store, with the    *)
(* curation runs that fill the Store.  One bot process runs at a time; a   *)
(* restart loses last_news_execution, which lives in memory only.          *)
(***************************************************************************)
MaxRows == 6            \* rows of the table
max_count == 5          \* create_card_news_with_buttons(news_list, max_count=5)

BatchSizes == {1, 5}    \* articles one curation run saves

\* The KST times of day at which the clock is read: <<hour, minute>>.
DayTimes == << <<5, 30>>, <<6, 0>>, <<6, 1>>, <<12, 0>>, <<18, 0>> >>

Digit == <<"0", "1", "2", "3", "4", "5", "6", "7", "8", "9">>

TwoDigits(n) == Digit[(n \div 10) + 1] \o Digit[(n % 10) + 1]

\* current_kst.strftime("%H:%M")
strftime_HM(t) == TwoDigits(t[1]) \o ":" \o TwoDigits(t[2])

Ids(rows) == [k \in 1..Len(rows) |-> rows[k].id]

IdSet(rows) == { rows[k].id : k \in 1..Len(rows) }

\* the message goes out and nothing is marked
SendAndForget(rows, counts, date, success) ==
    LET news_list == get_unsent_news(rows, Filter("None", ""), Filter("value", date))
        included == FirstN(news_list, max_count)
    IN  [rows |-> rows,
         counts |-> [i \in 1..Len(counts) |->
                        IF success /\ i \in IdSet(included) THEN counts[i] + 1
                        ELSE counts[i]],
         sent |-> success /\ news_list # << >>,
         fetched |-> Ids(news_list), included |-> Ids(included)]

\* send_scheduled_news(): today's unsent rows are fetched, the first max_count
\* of them make the message, and when the message is sent every fetched row is
\* marked.  counts is the history of the messages sent.
send_scheduled_news(rows, counts, date, success) ==
    LET news_list == get_unsent_news(rows, Filter("None", ""), Filter("value", date))
        included == FirstN(news_list, max_count)
    IN  IF news_list = << >>
        THEN [rows |-> rows, counts |-> counts, sent |-> FALSE,
              fetched |-> << >>, included |-> << >>]
        ELSE IF success
        THEN [rows |-> mark_news_as_sent(rows, IdSet(news_list)),
              counts |-> [i \in 1..Len(counts) |->
                            IF i \in IdSet(included) THEN counts[i] + 1 ELSE counts[i]],
              sent |-> TRUE, fetched |-> Ids(news_list), included |-> Ids(included)]
        ELSE [rows |-> rows, counts |-> counts, sent |-> FALSE,
              fetched |-> Ids(news_list), included |-> Ids(included)]

\* the first firing block of the loop: a schedule time kept on another day
FiresOnNewDay(lne, day, time_str) ==
    \E k \in 1..Len(news_schedule_times) :
        /\ lne[news_schedule_times[k]].set
        /\ lne[news_schedule_times[k]].day # day
        /\ time_str = news_schedule_times[k]

\* the second firing block without its comparison of day and hour
FiresWheneverDue(lne, day, hour, time_str) ==
    /\ time_str \in ScheduleTimes
    /\ lne[time_str].set

\* the second firing block: the time is a schedule time kept on another day or
\* in another hour
FiresOnTime(lne, day, hour, time_str) ==
    /\ time_str \in ScheduleTimes
    /\ lne[time_str].set
    /\ lne[time_str].day # day \/ lne[time_str].hour # hour

Kept(lne, fires, time_str, current) ==
    IF fires THEN [lne EXCEPT ![time_str] = current] ELSE lne

\* schedule times not in the dict get the current time
Initialised(lne, current) ==
    [s \in ScheduleTimes |-> IF lne[s].set THEN lne[s] ELSE current]

BotInit ==
    /\ StoreInit
    /\ clients = NoClients
    /\ AIIdle
    /\ QueryIdle
    /\ BotIdle
    /\ ParseIdle
    /\ RunIdle
    /\ SettingsIdle
    /\ LoopIdle
    /\ RestIdle

\* one iteration of the while loop of telegram_bot.main, ending in sleep(60)
Tick ==
    /\ ~ticked
    /\ \E ok \in BOOLEAN :
         LET time_str == strftime_HM(DayTimes[clock])
             hour == DayTimes[clock][1]
             current == [set |-> TRUE, day |-> today, hour |-> hour]
             fires1 == FiresOnNewDay(last_news_execution, today, time_str)
             lne1 == Initialised(Kept(last_news_execution, fires1, time_str, current),
                                 current)
             fires2 == FiresOnTime(lne1, today, hour, time_str)
         IN  /\ last_news_execution' = Kept(lne1, fires2, time_str, current)
             /\ firings' = firings + (IF fires1 THEN 1 ELSE 0) + (IF fires2 THEN 1 ELSE 0)
             /\ IF fires1 \/ fires2
                THEN \E r \in { send_scheduled_news(news, sentCount,
                                                    get_kst_today(today), ok) } :
                        /\ news' = r.rows
                        /\ sentCount' = r.counts
                        /\ lastSend' = [calls |-> 1, sent |-> r.sent,
                                        fetched |-> r.fetched, included |-> r.included]
                        /\ failedBatch' =
                              IF r.sent THEN {}
                              ELSE { r.included[k] : k \in 1..Len(r.included) }
                ELSE /\ ~ok
                     /\ lastSend' = NoSend
                     /\ UNCHANGED <<news, sentCount, failedBatch>>
    /\ ticked' = TRUE
    /\ UNCHANGED <<today, clock, outsideBot>>

\* the clock moves on, within the day or into the next day
Advance ==
    /\ \E d \in today..Len(Calendar), c \in 1..Len(DayTimes) :
          /\ d > today \/ c > clock
          /\ today' = d
          /\ clock' = c
    /\ ticked' = FALSE
    /\ lastSend' = NoSend
    /\ firings' = 0
    /\ UNCHANGED <<news, last_news_execution, sentCount, failedBatch, outsideBot>>

\* the bot process ends and a new one starts
Restart ==
    /\ last_news_execution' = [s \in ScheduleTimes |-> NoExec]
    /\ ticked' = FALSE
    /\ lastSend' = NoSend
    /\ UNCHANGED <<news, today, clock, sentCount, firings, failedBatch, outsideBot>>

\* a curation run saves the articles curated for one category, new ones and,
\* with again, one that is in the table already; delivery never looks at the
\* category, so the runs followed here are those of one category
FetchNews ==
    \E size \in BatchSizes, v \in { VariantOf("Economy") }, again \in BOOLEAN :
        /\ Len(news) + size <= MaxRows
        /\ again => news # << >>
        /\ \E r \in { save_news_bulk(news,
                         NewsList((IF again THEN <<1>> ELSE << >>)
                                     \o [i \in 1..size |-> Len(news) + i], v),
                         get_kst_today(today)) } :
              /\ news' = r.rows
              /\ sentCount' = sentCount \o [i \in 1..(Len(r.rows) - Len(news)) |-> 0]
        /\ lastSend' = NoSend
        /\ UNCHANGED <<today, clock, ticked, last_news_execution, firings, failedBatch,
                       outsideBot>>

BotNext ==
    \/ Tick
    \/ Advance
    \/ Restart
    \/ FetchNews

Spec == BotInit /\ [][BotNext]_vars

\* C1: no row of the table is in more than one scheduled-news message that was
\* sent, and a row that was in one is marked sent.
C1_AtMostOnce ==
    /\ Len(sentCount) = Len(news)
    /\ \A i \in 1..Len(news) :
          /\ sentCount[i] <= 1
          /\ sentCount[i] = 1 => news[i].telegram_sent = 1

\* a message was just sent on a day on which an earlier message was sent, and a
\* row of the earlier one is not in it
C1_Witness ==
    /\ lastSend.sent
    /\ \E i \in 1..Len(news) :
          /\ sentCount[i] = 1
          /\ news[i].date = get_kst_today(today)
          /\ \A k \in 1..Len(lastSend.included) : lastSend.included[k] # i

\* C13: at one time of one day send_scheduled_news is called at most once,
\* however the bot is restarted: a trigger fires at most once a day.
C13_OncePerDay == firings <= 1

\* the trigger of this minute fired, the bot was restarted and the new process
\* made its first loop iteration in the same minute without firing
C13_Witness ==
    /\ firings = 1
    /\ ticked
    /\ lastSend.calls = 0
    /\ strftime_HM(DayTimes[clock]) \in ScheduleTimes
    /\ \A s \in ScheduleTimes :
          last_news_execution[s] = [set |-> TRUE, day |-> today, hour |-> DayTimes[clock][1]]

\* C14: a firing whose send fails marks no row, and the rows of its message are
\* in the message of the next firing.  The next firing asks for the rows of
\* its own day only, so after a day change this does not hold.
C14_FailedBatchRetried ==
    [][lastSend'.calls = 1 =>
          /\ ~lastSend'.sent => news' = news
          /\ \A i \in failedBatch :
                \E k \in 1..Len(lastSend'.included) : lastSend'.included[k] = i]_vars

\* C15: the rows a firing marks sent are the rows of the message it sent, and
\* none when the send failed.  The code marks every row it fetched, up to
\* LIMIT, and puts the first max_count of them in the message, so with more
\* than max_count unsent rows this does not hold.
C15_MarkedAreIncluded ==
    [][lastSend'.calls = 1 =>
          { i \in 1..Len(news) : news[i].telegram_sent = 0 /\ news'[i].telegram_sent = 1 }
              = IF lastSend'.sent
                THEN { lastSend'.included[k] : k \in 1..Len(lastSend'.included) }
                ELSE {}]_vars

(***************************************************************************)
(* clean_json_response as a function of the response text.                 *)
(***************************************************************************)
MaxTextLen == 5         \* pieces of the longest response text

TextPieces == { "prose", "fence json", "fence", "[", "]", "obj", "obj+fence" }

Texts == SeqsUpTo(TextPieces, MaxTextLen)

ParseInit ==
    /\ text \in Texts
    /\ parsed = NotParsed
    /\ StoreInit
    /\ clients = NoClients
    /\ AIIdle
    /\ QueryIdle
    /\ BotIdle
    /\ RunIdle
    /\ SettingsIdle
    /\ LoopIdle
    /\ RestIdle

\* clean_json_response(text)
CleanJsonResponse ==
    /\ ~parsed.done
    /\ parsed' = [done |-> TRUE, val |-> clean_json_response(text)]
    /\ UNCHANGED <<text, outsideParse>>

ParseNext == CleanJsonResponse

SpecParse == ParseInit /\ [][ParseNext]_vars

\* the text is one fenced json block, and what is between its fences is JSON
FencedJson ==
    /\ Len(text) >= 3
    /\ text[1] = "fence json"
    /\ text[Len(text)] = "fence"
    /\ json_loads(SubSeq(text, 2, Len(text) - 1)).ok

\* C12: for a text that is valid JSON between a json fence and its closing
\* fence, clean_json_response returns that JSON.  The code ends the block at
\* the first ``` after the opening fence, also one inside a string of the
\* JSON, so this does not hold.
C12_FencedJsonReturned ==
    (parsed.done /\ FencedJson)
        => parsed.val = json_loads(SubSeq(text, 2, Len(text) - 1)).val

(***************************************************************************)
(* A curation run (fetch_news in news_scheduler.py, fetch_latest_news in   *)
(* telegram_bot.py, the collect button of app.py): for one category the    *)
(* feed is read, the entries whose link is not stored are the candidates,  *)
(* the first five go to curate_news and what it returns is saved.          *)
(***************************************************************************)
MaxFeed == 7            \* entries of the longest feed
MaxShortFeed == 3       \* entries of the longest feed of a small source
MaxRunRows == 3         \* rows of the table in a curation run
MaxScenarioRows == 4    \* rows of the table in the end-to-end scenario

CandidateCap == 5       \* candidates[:5]

RunCategories == {"Economy", "Society"}

\* The feed of len entries in which entry stored, if there is one, is the
\* stored link 1 and the others are new; new links are numbered on from the
\* known ones.
FeedOf(len, stored, known) ==
    [i \in 1..len |->
        IF i = stored THEN 1
        ELSE known + i - (IF stored # 0 /\ stored < i THEN 1 ELSE 0)]

Feeds(known, longest) ==
    UNION { { FeedOf(len, stored, known) :
                stored \in 0..(IF known = 0 THEN 0 ELSE len) } : len \in 0..longest }

\* every entry of the feed is a candidate
AllEntries(rows, feed) == feed

\* for entry in feed.entries: if not db.check_url_exists(entry.link): append
Candidates(rows, feed) ==
    SelectSeq(feed, LAMBDA link : ~check_url_exists(rows, link))

UnsentOf(rows, category) ==
    get_unsent_news(rows, Filter("value", category), Filter("None", NoDate))

UnsentToday(rows, date) ==
    { i \in 1..Len(rows) : rows[i].telegram_sent = 0 /\ rows[i].date = date }

RunInit ==
    /\ StoreInit
    /\ clients = NoClients
    /\ AIIdle
    /\ QueryIdle
    /\ BotIdle
    /\ ParseIdle
    /\ RunIdle
    /\ SettingsIdle
    /\ LoopIdle
    /\ RestIdle

\* one pass of the loop over the categories; curate_news returns an article
\* for each entry it was given, or none when it fails
FetchFrom(feeds, most) ==
    \E category \in RunCategories, feed \in feeds :
        \E candidates \in { Candidates(news, feed) } :
            \E passed \in { FirstN(candidates, CandidateCap) } :
                IF candidates = << >>
                THEN /\ run' = [tick |-> 1 - run.tick, category |-> category,
                                feed |-> feed, called |-> FALSE, passed |-> << >>,
                                curated |-> 0, count |-> 0]
                     /\ scenario' = [stage |-> 0, ids |-> {}]
                     /\ UNCHANGED <<news, today, outsideRun>>
                ELSE \E returned \in {0, Len(passed)} :
                        /\ Len(news) + returned <= most
                        /\ \E r \in { save_news_bulk(news,
                                         NewsList(SubSeq(passed, 1, returned),
                                                  VariantOf(category)),
                                         get_kst_today(today)) } :
                              /\ news' = r.rows
                              /\ run' = [tick |-> 1 - run.tick, category |-> category,
                                         feed |-> feed, called |-> TRUE,
                                         passed |-> passed, curated |-> returned,
                                         count |-> r.count]
                              /\ scenario' =
                                    IF /\ category = "Economy"
                                       /\ Len(feed) = 3
                                       /\ candidates = feed
                                       /\ returned = 3
                                       /\ UnsentOf(news, "Economy") = << >>
                                    THEN [stage |-> 1,
                                          ids |-> { r.rows[i].id :
                                                      i \in (Len(news) + 1)..Len(r.rows) }]
                                    ELSE [stage |-> 0, ids |-> {}]
                        /\ UNCHANGED <<today, outsideRun>>

FetchCategory == FetchFrom(Feeds(Len(news), MaxFeed), MaxRunRows)

RunNext == FetchCategory

SpecRun == RunInit /\ [][RunNext]_vars

\* the same pass over a source that lists few entries
FetchShortFeed == FetchFrom(Feeds(Len(news), MaxShortFeed), MaxScenarioRows)

\* send_scheduled_news() at a trigger
ScheduledSend ==
    \E ok \in BOOLEAN :
        \E r \in { send_scheduled_news(news, [i \in 1..Len(news) |-> 0],
                                       get_kst_today(today), ok) } :
            /\ news' = r.rows
            /\ scenario' =
                  IF scenario.stage = 1 /\ ~r.sent THEN scenario
                  ELSE IF /\ scenario.stage = 1
                          /\ Cardinality(UnsentToday(news, get_kst_today(today))) <= LIMIT
                       THEN [scenario EXCEPT !.stage = 2]
                       ELSE [stage |-> 0, ids |-> {}]
            /\ UNCHANGED <<today, run, outsideRun>>

RunNextDay ==
    /\ today < Len(Calendar)
    /\ today' = today + 1
    /\ scenario' = [stage |-> 0, ids |-> {}]
    /\ UNCHANGED <<news, run, outsideRun>>

ScenarioNext ==
    \/ FetchShortFeed
    \/ ScheduledSend
    \/ RunNextDay

SpecScenario == RunInit /\ [][ScenarioNext]_vars

C17_DedupBeforeCall ==
    [][run'.tick # run.tick =>
          LET new == SelectSeq(run'.feed,
                               LAMBDA u : \A i \in 1..Len(news) : news[i].url # u)
          IN  /\ run'.called = (new # << >>)
              /\ Len(run'.passed) <= 5
              /\ run'.passed = SubSeq(new, 1, IF Len(new) < 5 THEN Len(new) ELSE 5)
              /\ \A k \in 1..Len(run'.passed) :
                    \A i \in 1..Len(news) : news[i].url # run'.passed[k]]_vars

\* a feed of seven entries, one of them stored: five of the six new went out
C17_Witness ==
    /\ run.called
    /\ Len(run.feed) = 7
    /\ \E k \in 1..7 : run.feed[k] = 1 /\ \A j \in 1..Len(run.passed) : run.passed[j] # 1
    /\ Len(run.passed) = 5

(***************************************************************************)
(* The schedule form of the settings page (app.py) and the row of the      *)
(* settings table it writes.  A text is a sequence of characters.          *)
(***************************************************************************)
NumFields == 5          \* time1 .. time5

\* "06:00,12:00,18:00"
DefaultSchedule ==
    <<"0", "6", ":", "0", "0", ",", "1", "2", ":", "0", "0", ",",
      "1", "8", ":", "0", "0">>

\* what a text_input of the form may hold: "", "06:00", " 6:00", "25:00",
\* "12:60", "0600"
EntryTexts ==
    { << >>,
      <<"0", "6", ":", "0", "0">>,
      <<" ", "6", ":", "0", "0">>,
      <<"2", "5", ":", "0", "0">>,
      <<"1", "2", ":", "6", "0">>,
      <<"0", "6", "0", "0">> }

RECURSIVE StripLeft(_)
StripLeft(t) == IF t # << >> /\ Head(t) = " " THEN StripLeft(Tail(t)) ELSE t

RECURSIVE StripRight(_)
StripRight(t) ==
    IF t # << >> /\ t[Len(t)] = " " THEN StripRight(SubSeq(t, 1, Len(t) - 1)) ELSE t

\* t.strip()
Strip(t) == StripRight(StripLeft(t))

IsDigit(c) == \E d \in 1..10 : Digit[d] = c

\* re.match(r'^\d{1,2}:\d{2}$', t)
MatchesTimeFormat(t) ==
    /\ Len(t) \in {4, 5}
    /\ t[Len(t) - 2] = ":"
    /\ \A i \in (1..Len(t)) \ {Len(t) - 2} : IsDigit(t[i])

RECURSIVE IntOf(_)
\* int(digits)
IntOf(digits) ==
    IF digits = << >> THEN 0
    ELSE 10 * IntOf(SubSeq(digits, 1, Len(digits) - 1))
            + (CHOOSE d \in 0..9 : Digit[d + 1] = digits[Len(digits)])

\* hour, minute = map(int, t.split(':')); 0 <= hour <= 23 and 0 <= minute <= 59
InTimeRange(t) ==
    LET hour == IntOf(SubSeq(t, 1, Len(t) - 3))
        minute == IntOf(SubSeq(t, Len(t) - 1, Len(t)))
    IN  0 <= hour /\ hour <= 23 /\ 0 <= minute /\ minute <= 59

RECURSIVE Validate(_, _, _)
\* the loop over [time1, ..., time5]: it returns at the first entry that fails
Validate(fields, k, times) ==
    IF k > Len(fields) THEN [error |-> FALSE, times |-> times]
    ELSE LET t == Strip(fields[k])
         IN  IF t = << >> THEN Validate(fields, k + 1, times)
             ELSE IF ~MatchesTimeFormat(t) THEN [error |-> TRUE, times |-> times]
             ELSE IF ~InTimeRange(t) THEN [error |-> TRUE, times |-> times]
             ELSE Validate(fields, k + 1, Append(times, t))

RECURSIVE Join(_)
\* ",".join(times)
Join(times) ==
    IF times = << >> THEN << >>
    ELSE IF Len(times) = 1 THEN times[1]
    ELSE times[1] \o <<",">> \o Join(Tail(times))

RECURSIVE Split(_, _)
\* schedule_str.split(","), the part being read in cur
Split(str, cur) ==
    IF str = << >> THEN <<cur>>
    ELSE IF Head(str) = "," THEN <<cur>> \o Split(Tail(str), << >>)
    ELSE Split(Tail(str), Append(cur, Head(str)))

get_setting(value, default) == IF value = NoSetting THEN default ELSE value

\* [t.strip() for t in schedule_str.split(",") if t.strip()]
get_news_schedule_times(value) ==
    LET parts == Split(get_setting(value, DefaultSchedule), << >>)
        stripped == [k \in 1..Len(parts) |-> Strip(parts[k])]
    IN  SelectSeq(stripped, LAMBDA t : t # << >>)

set_news_schedule_times(times) == Join(times)

SettingsInit ==
    /\ StoreInit
    /\ clients = NoClients
    /\ AIIdle
    /\ QueryIdle
    /\ BotIdle
    /\ ParseIdle
    /\ RunIdle
    /\ SettingsIdle
    /\ LoopIdle
    /\ RestIdle

\* the save button of the schedule form, each field holding one of entries
SaveScheduleFrom(entries) ==
    \E fields \in [1..NumFields -> entries] :
        \E v \in { Validate(fields, 1, << >>) } :
            /\ IF v.error
               THEN /\ notice' = "error"
                    /\ UNCHANGED schedule_str
               ELSE IF v.times # << >>
               THEN /\ schedule_str' = set_news_schedule_times(v.times)
                    /\ notice' = "success"
               ELSE /\ notice' = "error"
                    /\ UNCHANGED schedule_str
            /\ UNCHANGED outsideSettings

SaveSchedule == SaveScheduleFrom(EntryTexts)

SettingsNext == SaveSchedule

SpecSettings == SettingsInit /\ [][SettingsNext]_vars

\* two digits, a colon, two digits; hour 0..23, minute 0..59
IsHHMM(t) ==
    /\ Len(t) = 5
    /\ IsDigit(t[1]) /\ IsDigit(t[2]) /\ t[3] = ":" /\ IsDigit(t[4]) /\ IsDigit(t[5])
    /\ IntOf(<<t[1], t[2]>>) <= 23
    /\ IntOf(<<t[4], t[5]>>) <= 59

\* C18: the persisted schedule holds only valid HH:MM times, hour 0..23 and
\* minute 0..59, and no more than five of them.
C18_OnlyValidTimes ==
    /\ Len(get_news_schedule_times(schedule_str)) <= 5
    /\ \A k \in 1..Len(get_news_schedule_times(schedule_str)) :
          IsHHMM(get_news_schedule_times(schedule_str)[k])

(***************************************************************************)
(* The two scheduling loops as processes: telegram_bot.main, whose loop    *)
(* body checks the news triggers and the vocabulary drill and then sleeps  *)
(* a minute, and news_scheduler.main, which fetches once and then sleeps   *)
(* an hour before every further fetch.  What is raised inside the try of a *)
(* loop is an Exception or the user's KeyboardInterrupt.                   *)
(***************************************************************************)
MaxLoopRows == 1        \* rows the scheduler may store
MaxLoopFeed == 1        \* entries of the feed the scheduler reads

vocab_interval_hours == 3

\* The KST times of day at which telegram_bot.main reads the clock.
LoopTimes == << <<3, 0>>, <<5, 59>>, <<6, 0>>, <<9, 0>> >>

\* minutes since the start of the first day of Calendar
MinuteOf(day, c) == ((day - 1) * 24 + LoopTimes[c][1]) * 60 + LoopTimes[c][2]

\* a try block without an except Exception clause
AfterRaiseNoHandler(class, place) ==
    IF class = "KeyboardInterrupt" /\ place = "try" THEN "stopped" ELSE "died"

\* except KeyboardInterrupt: break; except Exception: ... time.sleep(60);
\* nothing catches what is raised in a handler or is no Exception
AfterRaise(class, place) ==
    IF place # "try" THEN "died"
    ELSE IF class = "KeyboardInterrupt" THEN "stopped"
    ELSE IF class = "Exception" THEN "cooldown"
    ELSE "died"

\* every tick is a drill
VocabDueAlways(current, last) == TRUE

\* (current_kst - last_vocab_execution).total_seconds() / 3600 >= 3
VocabDue(current, last) == (current - last) * 60 >= vocab_interval_hours * 3600

\* the vocabulary block of the loop body
VocabBlock(last, current) ==
    IF ~last.set THEN [last |-> [set |-> TRUE, at |-> current], drill |-> FALSE]
    ELSE IF VocabDue(current, last.at)
    THEN [last |-> [set |-> TRUE, at |-> current], drill |-> TRUE]
    ELSE [last |-> last, drill |-> FALSE]

\* the two news blocks of the loop body
NewsBlock(lne, day, t) ==
    LET time_str == strftime_HM(t)
        current == [set |-> TRUE, day |-> day, hour |-> t[1]]
        fires1 == FiresOnNewDay(lne, day, time_str)
        lne1 == Initialised(Kept(lne, fires1, time_str, current), current)
        fires2 == FiresOnTime(lne1, day, t[1], time_str)
    IN  [lne |-> Kept(lne1, fires2, time_str, current), fires |-> fires1 \/ fires2]

\* fetch_news() for one category: what it leaves in the table
fetch_news(rows, category, feed, returned, date) ==
    LET candidates == Candidates(rows, feed)
        passed == FirstN(candidates, CandidateCap)
    IN  IF candidates = << >> THEN rows
        ELSE save_news_bulk(rows,
                            NewsList(FirstN(passed, returned), VariantOf(category)),
                            date).rows

LoopInit ==
    /\ StoreInit
    /\ clients = NoClients
    /\ AIIdle
    /\ QueryIdle
    /\ BotIdle
    /\ ParseIdle
    /\ RunIdle
    /\ SettingsIdle
    /\ RestIdle
    /\ pc = [l \in Loops |-> IF l = "telegram_bot" THEN "body" ELSE "first"]
    /\ loopClock \in 1..Len(LoopTimes)
    /\ last_vocab_execution = NoVocab
    /\ raised = [l \in Loops |-> "none"]
    /\ beat = NoBeat
    /\ drillRef = MinuteOf(1, loopClock)

\* one pass through the try block of telegram_bot.main: it ends in the sleep,
\* or something is raised at the start, before the vocabulary block, or at
\* the end
LoopTick ==
    /\ pc["telegram_bot"] = "body"
    /\ \E done \in {"ok", "Exception", "KeyboardInterrupt"},
          at \in {"start", "vocab", "end"}, ok \in BOOLEAN :
         /\ done = "ok" => at = "end"
         /\ \E nb \in { NewsBlock(last_news_execution, today, LoopTimes[loopClock]) },
               vb \in { VocabBlock(last_vocab_execution, MinuteOf(today, loopClock)) } :
              /\ IF at # "start" /\ nb.fires
                 THEN news' = send_scheduled_news(news, [i \in 1..Len(news) |-> 0],
                                                  get_kst_today(today), ok).rows
                 ELSE ~ok /\ news' = news
              /\ last_news_execution' =
                    IF at # "start" THEN nb.lne ELSE last_news_execution
              /\ last_vocab_execution' =
                    IF at = "end" THEN vb.last ELSE last_vocab_execution
              /\ beat' = [news |-> at # "start" /\ nb.fires,
                          drill |-> at = "end" /\ vb.drill]
              /\ drillRef' = IF at = "end" /\ vb.drill
                             THEN MinuteOf(today, loopClock) ELSE drillRef
         /\ pc' = [pc EXCEPT !["telegram_bot"] =
                      IF done = "ok" THEN "sleep" ELSE AfterRaise(done, "try")]
         /\ raised' = [raised EXCEPT !["telegram_bot"] =
                          IF done = "ok" THEN "none" ELSE done]
    /\ UNCHANGED <<today, loopClock, clock, ticked, sentCount, lastSend, firings,
                   failedBatch, outsideLoop>>

\* time.sleep(60) of telegram_bot.main returns, in the try block or in the
\* handler: the clock has moved on, while the calendar lasts
LoopWake ==
    /\ pc["telegram_bot"] \in {"sleep", "cooldown"}
    /\ \E d \in today..Len(Calendar), c \in 1..Len(LoopTimes) :
          /\ \/ d > today
             \/ d = today /\ c > loopClock
             \/ d = today /\ c = loopClock /\ d = Len(Calendar) /\ c = Len(LoopTimes)
          /\ today' = d
          /\ loopClock' = c
    /\ pc' = [pc EXCEPT !["telegram_bot"] = "body"]
    /\ UNCHANGED <<news, last_news_execution, last_vocab_execution, raised, beat,
                   drillRef, clock, ticked, sentCount, lastSend, firings, failedBatch,
                   outsideLoop>>

\* the immediate fetch_news() of news_scheduler.main, outside any try: the
\* import of telegram_bot inside it may end the process (sys.exit)
SchedulerFirst ==
    /\ pc["news_scheduler"] = "first"
    /\ \E done \in {"ok", "SystemExit", "KeyboardInterrupt"},
          category \in {"Economy"}, feed \in Feeds(Len(news), MaxLoopFeed),
          returned \in 0..MaxLoopFeed :
         /\ done # "ok" => returned = 0 /\ feed = << >>
         /\ news' = IF done = "ok"
                    THEN fetch_news(news, category, feed, returned, get_kst_today(today))
                    ELSE news
         /\ Len(news') <= MaxLoopRows
         /\ pc' = [pc EXCEPT !["news_scheduler"] =
                      IF done = "ok" THEN "sleep" ELSE "exited"]
         /\ raised' = [raised EXCEPT !["news_scheduler"] =
                          IF done = "ok" THEN "none" ELSE done]
    /\ UNCHANGED <<today, loopClock, last_news_execution, last_vocab_execution, beat,
                   drillRef, clock, ticked, sentCount, lastSend, firings, failedBatch,
                   outsideLoop>>

\* a sleep of news_scheduler.main returns: after time.sleep(3600) comes the
\* fetch, after the time.sleep(60) of the handler the next pass of the loop
SchedulerWake ==
    /\ pc["news_scheduler"] \in {"sleep", "cooldown"}
    /\ pc' = [pc EXCEPT !["news_scheduler"] =
                 IF pc["news_scheduler"] = "sleep" THEN "body" ELSE "sleep"]
    /\ UNCHANGED <<news, today, loopClock, last_news_execution, last_vocab_execution,
                   raised, beat, drillRef, clock, ticked, sentCount, lastSend, firings,
                   failedBatch, outsideLoop>>

\* the fetch of one pass of the loop of news_scheduler.main
SchedulerTick ==
    /\ pc["news_scheduler"] = "body"
    /\ \E done \in {"ok", "Exception", "KeyboardInterrupt"},
          category \in {"Economy"}, feed \in Feeds(Len(news), MaxLoopFeed),
          returned \in 0..MaxLoopFeed :
         /\ done # "ok" => returned = 0 /\ feed = << >>
         /\ news' = IF done = "ok"
                    THEN fetch_news(news, category, feed, returned, get_kst_today(today))
                    ELSE news
         /\ Len(news') <= MaxLoopRows
         /\ pc' = [pc EXCEPT !["news_scheduler"] =
                      IF done = "ok" THEN "sleep" ELSE AfterRaise(done, "try")]
         /\ raised' = [raised EXCEPT !["news_scheduler"] =
                          IF done = "ok" THEN "none" ELSE done]
    /\ UNCHANGED <<today, loopClock, last_news_execution, last_vocab_execution, beat,
                   drillRef, clock, ticked, sentCount, lastSend, firings, failedBatch,
                   outsideLoop>>

\* the user interrupts a process that sleeps, in its try block or in its
\* handler
Interrupt ==
    /\ \E l \in Loops :
          /\ pc[l] \in {"sleep", "cooldown"}
          /\ pc' = [pc EXCEPT ![l] =
                       AfterRaise("KeyboardInterrupt",
                                  IF pc[l] = "sleep" THEN "try" ELSE "handler")]
          /\ raised' = [raised EXCEPT ![l] = "KeyboardInterrupt"]
    /\ UNCHANGED <<news, today, loopClock, last_news_execution, last_vocab_execution,
                   beat, drillRef, clock, ticked, sentCount, lastSend, firings,
                   failedBatch, outsideLoop>>

LoopNext ==
    \/ LoopTick
    \/ LoopWake
    \/ SchedulerFirst
    \/ SchedulerWake
    \/ SchedulerTick
    \/ Interrupt

SpecLoop == LoopInit /\ [][LoopNext]_vars

\* a sleep that is not interrupted returns
SpecLoopFair == SpecLoop /\ WF_vars(LoopWake) /\ WF_vars(SchedulerWake)

\* C19: neither loop ends because of an Exception raised in a pass: a loop
\* that has ended was ended by the user's interrupt, and a loop in the sleep
\* that follows a failed pass goes on to a further pass unless it is
\* interrupted.
C19_LoopsSurvive ==
    /\ [](\A l \in Loops : pc[l] \in {"stopped", "died"} => raised[l] = "KeyboardInterrupt")
    /\ \A l \in Loops : (pc[l] = "cooldown") ~> (pc[l] \in {"body", "stopped", "died"})

\* both loops are in a pass that follows a failed one
C19_Witness ==
    \A l \in Loops : pc[l] = "body" /\ raised[l] = "Exception"

\* C20: a pass of telegram_bot.main sends the drill only when at least 3
\* hours have gone by since the last drill it sent or since the process
\* started; a pass that sends news and no drill leaves the time kept for the
\* drill as it is; and a pass that runs to its sleep with 3 hours or more on
\* that timer sends the drill, whether or not it sends news.
C20_DrillInterval ==
    [][(pc["telegram_bot"] = "body" /\ pc'["telegram_bot"] # "body") =>
          /\ beat'.drill => MinuteOf(today, loopClock) - drillRef >= 3 * 60
          /\ (beat'.news /\ ~beat'.drill /\ last_vocab_execution.set)
                => last_vocab_execution' = last_vocab_execution
          /\ (/\ pc'["telegram_bot"] = "sleep"
              /\ last_vocab_execution.set
              /\ MinuteOf(today, loopClock) - last_vocab_execution.at >= 3 * 60)
                => beat'.drill]_vars

\* the process started at 03:00; its pass at 06:00 of that day sent the news
\* of the 06:00 trigger and, three hours to the minute after the start, the
\* drill
C20_Witness ==
    /\ beat.drill
    /\ beat.news
    /\ today = 1
    /\ LoopTimes[loopClock] = <<6, 0>>
    /\ drillRef = MinuteOf(today, loopClock)
    /\ pc["telegram_bot"] = "sleep"

(***************************************************************************)
(* send_telegram_message (telegram_bot.py, and its copy in                 *)
(* webhook_handler.py) against the channel: one requests.post, which       *)
(* returns a response with a status code or raises.                        *)
(***************************************************************************)
\* the message texts the program sends: the news card, the vocabulary card,
\* the all-learned notice, the test message
MessageTexts == {"news card", "vocab card", "all learned", "test"}

\* reply_markup: None, the link buttons of a news card, the refresh button
Markups == {"None", "link buttons", "refresh button"}

\* what the Bot API answers to sendMessage
StatusCodes == {200, 400, 401, 403, 429, 500, 502}

\* what requests.post raises when there is no answer
NetworkErrors == {"ConnectionError", "Timeout"}

\* an answer is a response with a status code, or no response and an error
Answers ==
    { [raises |-> "none", status_code |-> c] : c \in StatusCodes } \cup
    { [raises |-> e, status_code |-> 0] : e \in NetworkErrors }

\* every answer counts as sent
AnyStatus(status_code) == TRUE

\* response.status_code == 200
StatusIs200(status_code) == status_code = 200

\* requests.post(url, data=data, timeout=30)
requests_post(answer) ==
    [requests |-> 1, raised |-> answer.raises # "none", status_code |-> answer.status_code]

send_telegram_message(message, reply_markup, answer) ==
    LET response == requests_post(answer)
    IN  IF response.raised
        THEN [requests |-> response.requests, ret |-> FALSE, raised |-> FALSE]
        ELSE [requests |-> response.requests, ret |-> StatusIs200(response.status_code),
              raised |-> FALSE]

ChannelInit ==
    /\ StoreInit
    /\ clients = NoClients
    /\ AIIdle
    /\ QueryIdle
    /\ BotIdle
    /\ ParseIdle
    /\ RunIdle
    /\ SettingsIdle
    /\ LoopIdle
    /\ RestIdle

SendTelegramMessage ==
    \E message \in MessageTexts, reply_markup \in Markups, answer \in Answers :
        \E r \in { send_telegram_message(message, reply_markup, answer) } :
            /\ sendCall' = [called |-> TRUE, text |-> message, markup |-> reply_markup,
                            requests |-> r.requests, answer |-> answer, ret |-> r.ret,
                            raised |-> r.raised]
            /\ UNCHANGED outsideChan

ChannelNext == SendTelegramMessage

SpecChannel == ChannelInit /\ [][ChannelNext]_vars

\* C21: a call of send_telegram_message makes one request, raises nothing, and
\* returns true exactly when the channel answered with a 2xx status; every
\* other status, a connection error and a timeout give false.
C21_OneRequestNoRaise ==
    sendCall.called =>
        /\ sendCall.requests = 1
        /\ ~sendCall.raised
        /\ sendCall.ret <=>
              (sendCall.answer.raises = "none" /\ sendCall.answer.status_code \div 100 = 2)

\* the request for a news card with its buttons timed out and the call
\* returned false
C21_Witness ==
    /\ sendCall.called
    /\ sendCall.answer.raises = "Timeout"
    /\ sendCall.markup = "link buttons"
    /\ ~sendCall.ret

(***************************************************************************)
(* A whole run of fetch_news (news_scheduler.py) or fetch_latest_news      *)
(* (telegram_bot.py): the set-up, one pass per category of Config.RSS_MAP, *)
(* each inside its own try, and the return of the total.                   *)
(***************************************************************************)
MaxFetchRows == 3       \* rows of the table
MaxFetchFeed == 2       \* entries of the longest feed

\* list(Config.RSS_MAP.items())
CategoryList == <<"Economy", "Society", "World">>

FetchFunctions == {"fetch_news", "fetch_latest_news"}

\* an article as the provider returns it for the category
ArticleOf(category) ==
    [title |-> "t1", summary |-> ListSummary, category |-> category]

\* without the try of the loop body the failure reaches the except clause
\* of the function
FailureEndsRun(f) ==
    [f EXCEPT !.state = "returned", !.how = "category", !.ret = 0,
              !.seen = f.seen \cup {f.i}, !.failed = f.failed \cup {f.i}]

\* except Exception as e: logger.error(...) in the loop body: on to the next
\* category
FailureContained(f) ==
    [f EXCEPT !.i = f.i + 1, !.seen = f.seen \cup {f.i},
              !.failed = f.failed \cup {f.i}]

FetchInit ==
    /\ StoreInit
    /\ clients = NoClients
    /\ AIIdle
    /\ QueryIdle
    /\ BotIdle
    /\ ParseIdle
    /\ RunIdle
    /\ SettingsIdle
    /\ LoopIdle
    /\ RestIdle

\* the function is called: without GOOGLE_API_KEY it returns 0, a failure of
\* the imports or of the DatabaseManager and AIAgent constructors is caught by
\* its except clause, which returns 0
FetchStart ==
    /\ fetching.state \in {"idle", "returned"}
    /\ \E fn \in FetchFunctions, setup \in {"ok", "no key", "raises"} :
          fetching' =
              IF setup = "ok"
              THEN [fn |-> fn, state |-> "loop", how |-> "none", i |-> 1, total |-> 0,
                    good |-> 0, seen |-> {}, failed |-> {}, ret |-> 0]
              ELSE [fn |-> fn, state |-> "returned", how |-> setup, i |-> 0, total |-> 0,
                    good |-> 0, seen |-> {}, failed |-> {}, ret |-> 0]
    /\ UNCHANGED <<news, today, outsideFetch>>

\* the loop body for the next category; something may be raised while the
\* feed is read, after curate_news, or by save_news_bulk, whose transaction
\* is then rolled back
FetchStep ==
    /\ fetching.state = "loop"
    /\ fetching.i <= Len(CategoryList)
    /\ \E feed \in Feeds(Len(news), MaxFetchFeed), fails \in {"none", "feed", "curate", "save"},
          returned \in 0..MaxFetchFeed :
         \E candidates \in { Candidates(news, feed) } :
            /\ returned <= Len(candidates)
            /\ fails \in {"curate", "save"} => candidates # << >>
            /\ fails = "save" => returned > 0
            /\ Len(news) + returned <= MaxFetchRows
            /\ IF fails # "none"
               THEN /\ fetching' = FailureContained(fetching)
                    /\ news' = news
               ELSE \E r \in { IF candidates = << >> \/ returned = 0
                               THEN [rows |-> news, count |-> 0]
                               ELSE save_news_bulk(news,
                                       NewsList(FirstN(FirstN(candidates, CandidateCap),
                                                       returned),
                                                ArticleOf(CategoryList[fetching.i])),
                                       get_kst_today(today)) } :
                       /\ news' = r.rows
                       /\ fetching' =
                             [fetching EXCEPT !.i = @ + 1,
                                              !.total = @ + r.count,
                                              !.good = @ + (Len(r.rows) - Len(news)),
                                              !.seen = @ \cup {fetching.i}]
    /\ UNCHANGED <<today, outsideFetch>>

\* after the last category: fetch_news writes last_news_update, and a failure
\* of that write is caught by its except clause, which returns 0; then the
\* total is returned
FetchReturn ==
    /\ fetching.state = "loop"
    /\ fetching.i > Len(CategoryList)
    /\ \E written \in BOOLEAN :
          /\ fetching.fn = "fetch_latest_news" => written
          /\ fetching' =
                IF written
                THEN [fetching EXCEPT !.state = "returned", !.how = "loop",
                                      !.ret = fetching.total]
                ELSE [fetching EXCEPT !.state = "returned", !.how = "setting",
                                      !.ret = 0]
    /\ UNCHANGED <<news, today, outsideFetch>>

FetchNext ==
    \/ FetchStart
    \/ FetchStep
    \/ FetchReturn

SpecFetch == FetchInit /\ [][FetchNext]_vars

\* C22: a run never ends in an exception; a run in which only passes for
\* single categories failed has gone through every category and returns the
\* number of rows that the passes which did not fail inserted.
C22_FailureContained ==
    /\ fetching.state # "raised"
    /\ (fetching.state = "returned" /\ fetching.how \notin {"no key", "raises", "setting"})
          => /\ fetching.seen = 1..Len(CategoryList)
             /\ fetching.ret = fetching.good

\* the pass for the first category failed and the run went on to insert rows
\* for a later one
C22_Witness ==
    /\ fetching.state = "returned"
    /\ fetching.how = "loop"
    /\ 1 \in fetching.failed
    /\ fetching.ret > 0
    /\ fetching.seen = {1, 2, 3}

\* C25: under Spec, a loop iteration made at a schedule time whose trigger
\* has not fired on this day calls send_scheduled_news.  The first iteration
\* of a process enters every schedule time in last_news_execution with the
\* current day and hour before it compares, so a process whose first
\* iteration falls in a trigger's minute does not fire it.
C25_DueTriggerFires ==
    [][(~ticked /\ ticked' /\ firings = 0
            /\ strftime_HM(DayTimes[clock]) \in ScheduleTimes)
          => firings' = 1]_vars

(***************************************************************************)
(* Delivery with nothing in its way: one bot process makes its loop        *)
(* iteration at every time of every day, and every message it sends is     *)
(* accepted.                                                               *)
(***************************************************************************)
DeliveryInit ==
    /\ StoreInit
    /\ clients = NoClients
    /\ AIIdle
    /\ QueryIdle
    /\ BotIdle
    /\ ParseIdle
    /\ RunIdle
    /\ SettingsIdle
    /\ LoopIdle
    /\ RestIdle

\* a loop iteration whose send_telegram_message, if it makes the call, returns
\* True
TickSent ==
    /\ Tick
    /\ lastSend'.calls = 1 => (lastSend'.sent \/ lastSend'.fetched = << >>)

\* sleep(60) ends at the next time of the day, or at the first time of the
\* next day
NextMinute ==
    /\ ticked
    /\ Advance
    /\ \/ today' = today /\ clock' = clock + 1
       \/ today' = today + 1 /\ clock = Len(DayTimes) /\ clock' = 1

DeliveryNext ==
    \/ FetchNews
    \/ TickSent
    \/ NextMinute

SpecDelivery == DeliveryInit /\ [][DeliveryNext]_vars

\* the clock keeps moving: every sleep(60) ends
SpecDeliveryFair == SpecDelivery /\ WF_vars(NextMinute)

\* C26: under SpecDeliveryFair, if the loop makes its iteration at every time
\* (it is never left waiting for ever), every row saved on the first day is in
\* the end in a message that was sent and is marked sent.  A row saved after
\* the last trigger of its day is never fetched, because send_scheduled_news
\* asks for the rows of the current day only; and of more than max_count
\* fetched rows the ones past max_count are marked without having been in the
\* message.
C26_EventuallyDelivered ==
    []<>ticked
        => <>[](\A i \in 1..Len(news) :
                   news[i].date = get_kst_today(1)
                       => news[i].telegram_sent = 1 /\ sentCount[i] >= 1)

\* a row saved in the morning of the first day went out at the next trigger
C26_Witness ==
    /\ today = 1
    /\ strftime_HM(DayTimes[clock]) = "12:00"
    /\ lastSend.sent
    /\ news[1].date = get_kst_today(1)
    /\ news[1].telegram_sent = 1
    /\ sentCount[1] = 1

(***************************************************************************)
(* The schedule form together with the bot: the user saves a schedule of   *)
(* valid times while telegram_bot.main runs its loop.                      *)
(***************************************************************************)

\* what the fields hold here: "" or "05:30"
ValidEntryTexts ==
    { << >>,
      <<"0", "5", ":", "3", "0">> }

\* current_kst.strftime("%H:%M") as a text of the form
TimeText(t) ==
    <<Digit[(t[1] \div 10) + 1], Digit[(t[1] % 10) + 1], ":",
      Digit[(t[2] \div 10) + 1], Digit[(t[2] % 10) + 1]>>

\* the times of the persisted schedule
PersistedTimes ==
    { get_news_schedule_times(schedule_str)[k] :
        k \in 1..Len(get_news_schedule_times(schedule_str)) }

ConfiguredInit ==
    /\ StoreInit
    /\ clients = NoClients
    /\ AIIdle
    /\ QueryIdle
    /\ BotIdle
    /\ ParseIdle
    /\ RunIdle
    /\ SettingsIdle
    /\ LoopIdle
    /\ RestIdle

SaveValidSchedule == SaveScheduleFrom(ValidEntryTexts)

ConfiguredNext ==
    \/ SaveValidSchedule
    \/ Tick
    \/ Advance
    \/ Restart

SpecConfigured == ConfiguredInit /\ [][ConfiguredNext]_vars

\* C24: once a schedule of valid times is saved, a loop iteration calls
\* send_scheduled_news only at a time of the saved schedule.  The loop of
\* telegram_bot.main compares the time with its own list 06:00, 12:00, 18:00
\* and never reads the setting, so this does not hold.
C24_FiresAtSavedTimes ==
    [][(schedule_str # NoSetting /\ firings' > firings)
          => TimeText(DayTimes[clock]) \in PersistedTimes]_vars

\* the saved schedule holds 05:30 and the bot, running since the day before,
\* has made its loop iteration of 05:30
C24_SavedTimeReached ==
    /\ schedule_str = <<"0", "5", ":", "3", "0">>
    /\ today > 1
    /\ strftime_HM(DayTimes[clock]) = "05:30"
    /\ ticked
    /\ \A s \in ScheduleTimes : last_news_execution[s].set /\ last_news_execution[s].day < today

(***************************************************************************)
(* create_card_news and create_card_news_with_buttons (telegram_bot.py).   *)
(* A news item is the 7-tuple get_unsent_news returns; a message is its    *)
(* heading and the entries that follow it; the time in the heading is left *)
(* out.                                                                    *)
(***************************************************************************)
MaxCardItems == 3       \* items handed to the function
MaxCardCount == 4       \* largest max_count

\* item u of three, saved on the day date, with a summary of 1, 3 and 4 lines
CardItem(u, date) ==
    [category |-> "Economy", date |-> date, id |-> u, is_saved |-> 0,
     summary |-> IF u = 1 THEN <<"line">>
                 ELSE IF u = 2 THEN <<"line", "line", "line">>
                 ELSE <<"line", "line", "line", "line">>,
     title |-> u, url |-> u]

\* the lists of at most longest items of the day date
CardItemLists(longest, date) == SeqsUpTo({ CardItem(u, date) : u \in 1..3 }, longest)

\* the whole list in place of the slice
NotSliced(news_items, count) == news_items

\* news_items[:max_count], max_count >= 0
Sliced(news_items, count) == FirstN(news_items, count)

\* '\n'.join(summary_lines[:3]) if len(summary_lines) > 3 else summary
CleanSummary(summary) == IF Len(summary) > 3 THEN SubSeq(summary, 1, 3) ELSE summary

create_card_news(news_items, count) ==
    [head |-> "briefing",
     entries |-> [idx \in 1..Len(Sliced(news_items, count)) |->
                    [category |-> Sliced(news_items, count)[idx].category,
                     idx |-> idx,
                     summary |-> CleanSummary(Sliced(news_items, count)[idx].summary),
                     title |-> Sliced(news_items, count)[idx].title,
                     url |-> Sliced(news_items, count)[idx].url]]]

create_card_news_with_buttons(news_items, count) ==
    IF news_items = << >>
    THEN [message |-> [head |-> "no news", entries |-> << >>],
          reply_markup |-> [kind |-> "None", inline_keyboard |-> << >>]]
    ELSE [message |-> create_card_news(news_items, count),
          reply_markup |->
             [kind |-> "dict",
              inline_keyboard |->
                 [idx \in 1..Len(Sliced(news_items, count)) |->
                    << [label |-> idx, url |-> Sliced(news_items, count)[idx].url] >>]]]

CardInit ==
    /\ StoreInit
    /\ clients = NoClients
    /\ AIIdle
    /\ QueryIdle
    /\ BotIdle
    /\ ParseIdle
    /\ RunIdle
    /\ SettingsIdle
    /\ LoopIdle
    /\ RestIdle

CreateCard ==
    \E news_items \in CardItemLists(MaxCardItems, get_kst_today(today)),
       count \in 0..MaxCardCount :
        \E r \in { create_card_news_with_buttons(news_items, count) } :
            /\ card' = [called |-> TRUE, items |-> news_items, count |-> count,
                        message |-> r.message, reply_markup |-> r.reply_markup]
            /\ UNCHANGED outsideCard

CardNext == CreateCard

SpecCard == CardInit /\ [][CardNext]_vars

\* the smaller of the number of items and max_count
CardShown == IF Len(card.items) < card.count THEN Len(card.items) ELSE card.count

\* C27: create_card_news_with_buttons of n items and max_count m returns a
\* message whose entries are the first min(n, m) items in their order and a
\* keyboard of min(n, m) rows of one link button, the i-th with the URL of the
\* i-th item; of no items it returns the no-news message and no keyboard.
C27_CardAndButtons ==
    card.called =>
        IF card.items = << >>
        THEN /\ card.message = [head |-> "no news", entries |-> << >>]
             /\ card.reply_markup.kind = "None"
        ELSE /\ card.message.head = "briefing"
             /\ Len(card.message.entries) = CardShown
             /\ card.reply_markup.kind = "dict"
             /\ Len(card.reply_markup.inline_keyboard) = CardShown
             /\ \A i \in 1..CardShown :
                   /\ card.message.entries[i].idx = i
                   /\ card.message.entries[i].title = card.items[i].title
                   /\ card.message.entries[i].url = card.items[i].url
                   /\ Len(card.reply_markup.inline_keyboard[i]) = 1
                   /\ card.reply_markup.inline_keyboard[i][1].url = card.items[i].url
                   /\ card.reply_markup.inline_keyboard[i][1].label = i

\* three items, of which two with the same URL, and max_count 2
C27_Witness ==
    /\ card.called
    /\ Len(card.items) = 3
    /\ card.count = 2
    /\ card.items[1].url = card.items[3].url
    /\ card.items[1].url # card.items[2].url
    /\ Len(card.reply_markup.inline_keyboard) = 2

(***************************************************************************)
(* The webhook of webhook_handler.py, a process of its own, next to the    *)
(* vocabulary page of the app, which adds words and sets their status, and *)
(* the drill timer of telegram_bot.main.  Row i of vocab has id i.         *)
(***************************************************************************)
MaxWords == 6           \* rows of the vocab table

\* what the POST may carry: a body that is no JSON object, a message, a
\* callback with other data, a callback without data, the refresh callback
UpdateKinds == {"no json", "message", "callback other", "callback no data", "vocab_refresh"}

\* callback_query.get('data', '')
CallbackData(kind) ==
    IF kind = "vocab_refresh" THEN "vocab_refresh"
    ELSE IF kind = "callback other" THEN "other"
    ELSE ""

\* every callback is taken for the refresh
AnyCallback(callback_data) == TRUE

\* callback_data == 'vocab_refresh'
IsRefresh(callback_data) == callback_data = "vocab_refresh"

ActiveIds(rows) == { i \in 1..Len(rows) : rows[i] = "active" }

\* SELECT ... FROM vocab WHERE status='active' ORDER BY RANDOM() LIMIT ?:
\* the results the call may have
get_random_unlearned_words(rows, count) ==
    { w \in SUBSET ActiveIds(rows) :
        Cardinality(w) = IF Cardinality(ActiveIds(rows)) < count
                         THEN Cardinality(ActiveIds(rows)) ELSE count }

\* webhook(): what it sends and returns.  dbfails: DatabaseManager or the
\* query raises.
webhook(kind, rows, words, dbfails) ==
    IF kind = "no json"
    THEN [answers |-> 0, sends |-> 0, words |-> {}, response |-> "error 500"]
    ELSE IF kind = "message" \/ ~IsRefresh(CallbackData(kind))
    THEN [answers |-> 0, sends |-> 0, words |-> {}, response |-> "ok 200"]
    ELSE IF dbfails
    THEN [answers |-> 1, sends |-> 0, words |-> {}, response |-> "error 500"]
    ELSE IF words = {}
    THEN [answers |-> 1, sends |-> 1, words |-> {}, response |-> "None"]
    ELSE [answers |-> 1, sends |-> 1, words |-> words, response |-> "ok 200"]

HookInit ==
    /\ StoreInit
    /\ clients = NoClients
    /\ AIIdle
    /\ QueryIdle
    /\ BotIdle
    /\ ParseIdle
    /\ RunIdle
    /\ SettingsIdle
    /\ LoopIdle
    /\ RestIdle

\* one POST to the webhook
Webhook ==
    \E kind \in UpdateKinds, dbfails \in BOOLEAN,
       words \in get_random_unlearned_words(vocab, 5) :
        \E r \in { webhook(kind, vocab, words, dbfails) } :
            /\ hook' = [turn |-> 1 - hook.turn, kind |-> kind, answers |-> r.answers,
                        sends |-> r.sends, words |-> r.words, response |-> r.response]
            /\ UNCHANGED <<vocab, outsideHook>>

\* add_vocab_from_df with one new word
AddWord ==
    /\ Len(vocab) < MaxWords
    /\ vocab' = Append(vocab, "active")
    /\ UNCHANGED <<hook, outsideHook>>

\* update_status_bulk(checked_ids, "memorized") with the newest active word
MemorizeWord ==
    /\ ActiveIds(vocab) # {}
    /\ \E i \in { CHOOSE j \in ActiveIds(vocab) : \A k \in ActiveIds(vocab) : k <= j } :
          vocab' = [vocab EXCEPT ![i] = "memorized"]
    /\ UNCHANGED <<hook, outsideHook>>

\* the drill timer of the bot is set, at its start or by a scheduled drill
ScheduledDrill ==
    \E at \in 1..2 :
        /\ last_vocab_execution # [set |-> TRUE, at |-> at]
        /\ last_vocab_execution' = [set |-> TRUE, at |-> at]
        /\ UNCHANGED <<vocab, hook, pc, loopClock, raised, beat, drillRef, storeVars,
                       aiVars, queryVars, botVars, parseVars, runVars, settingsVars,
                       chanVars, fetchVars, cardVars, serviceVars>>

HookNext ==
    \/ Webhook
    \/ AddWord
    \/ MemorizeWord
    \/ ScheduledDrill

SpecHook == HookInit /\ [][HookNext]_vars

\* the smaller of 5 and the number of active words
UpToFive(rows) ==
    IF Cardinality({ i \in 1..Len(rows) : rows[i] = "active" }) < 5
    THEN Cardinality({ i \in 1..Len(rows) : rows[i] = "active" }) ELSE 5

\* C28: a POST to the webhook changes no row of the Store and not the drill
\* timer; the refresh callback, unless the Store raises, makes one send, of
\* min(5, active words) words that are all active, whatever the drill timer
\* holds; any other update makes no send.
C28_RefreshOnDemand ==
    [][hook'.turn # hook.turn =>
          /\ vocab' = vocab
          /\ news' = news
          /\ schedule_str' = schedule_str
          /\ last_vocab_execution' = last_vocab_execution
          /\ hook'.kind # "vocab_refresh" => hook'.sends = 0 /\ hook'.answers = 0
          /\ (hook'.kind = "vocab_refresh" /\ hook'.response # "error 500")
                => /\ hook'.sends = 1
                   /\ Cardinality(hook'.words) = UpToFive(vocab)
                   /\ \A i \in hook'.words : vocab[i] = "active"]_vars

\* the refresh callback came after the drill timer was set twice, with six
\* active words, and five of them went out
C28_Witness ==
    /\ hook.kind = "vocab_refresh"
    /\ hook.sends = 1
    /\ Cardinality(hook.words) = 5
    /\ last_vocab_execution = [set |-> TRUE, at |-> 2]
    /\ Len(vocab) = 6
    /\ \A i \in 1..Len(vocab) : vocab[i] = "active"

\* C29: whatever the update, the handler returns a status response: ok with
\* 200 or error with 500.  On the refresh callback with no active word the
\* handler sends the all-learned message and leaves through a bare return,
\* so it returns None.
C29_StatusResponse ==
    hook.kind # "none" => hook.response \in {"ok 200", "error 500"}

\* each of the other branches returned its status
C29_OtherBranches ==
    /\ hook.kind = "vocab_refresh"
    /\ hook.words # {}
    /\ hook.response = "ok 200"

(***************************************************************************)
(* The background services of app.py.  Each run of the script calls        *)
(* start_background_services, which starts two daemon threads; a thread    *)
(* calls its target with the args it was given.  A call with a number of   *)
(* arguments the function does not take raises TypeError.                  *)
(***************************************************************************)
MaxServiceRuns == 3     \* runs of the script

\* positional parameters of each function
Parameters ==
    [run_scheduler |-> 1, run_telegram_bot |-> 0,
     news_scheduler_main |-> 0, telegram_bot_main |-> 0]

\* fn(*args) with nargs arguments
Call(fn, nargs) == IF Parameters[fn] = nargs THEN "ok" ELSE "TypeError"

ServicesInit ==
    /\ StoreInit
    /\ clients = NoClients
    /\ AIIdle
    /\ QueryIdle
    /\ BotIdle
    /\ ParseIdle
    /\ RunIdle
    /\ SettingsIdle
    /\ LoopIdle
    /\ RestIdle

\* the script runs: start_background_services(api_keys) starts both threads
StartBackgroundServices ==
    /\ Len(services) < MaxServiceRuns
    /\ services' = Append(services, [scheduler |-> "started", bot |-> "started"])
    /\ UNCHANGED <<settingsVars, loopVars, outsideServices>>

\* the scheduler thread calls run_scheduler(api_keys)
SchedulerThreadRuns ==
    \E k \in 1..Len(services) :
        /\ services[k].scheduler = "started"
        /\ services' = [services EXCEPT ![k].scheduler =
                           IF Call("run_scheduler", 1) = "ok" THEN "try" ELSE "died"]
        /\ UNCHANGED <<settingsVars, loopVars, outsideServices>>

\* run_scheduler calls news_scheduler.main(api_keys) inside its try; an
\* Exception is logged and the thread ends
SchedulerCallsMain ==
    \E k \in 1..Len(services) :
        /\ services[k].scheduler = "try"
        /\ services' = [services EXCEPT ![k].scheduler =
                           IF Call("news_scheduler_main", 1) = "ok" THEN "loop" ELSE "ended"]
        /\ UNCHANGED <<settingsVars, loopVars, outsideServices>>

\* the bot thread calls run_telegram_bot(api_keys); run_telegram_bot would call
\* telegram_bot.main() inside its try
BotThreadRuns ==
    \E k \in 1..Len(services) :
        /\ services[k].bot = "started"
        /\ services' = [services EXCEPT ![k].bot =
                           IF Call("run_telegram_bot", 1) = "TypeError" THEN "died"
                           ELSE IF Call("telegram_bot_main", 0) = "ok" THEN "loop"
                           ELSE "ended"]
        /\ UNCHANGED <<settingsVars, loopVars, outsideServices>>

ServicesNext ==
    \/ StartBackgroundServices
    \/ SchedulerThreadRuns
    \/ SchedulerCallsMain
    \/ BotThreadRuns

SpecServices == ServicesInit /\ [][ServicesNext]_vars

\* every started thread gets to run
SpecServicesFair ==
    /\ SpecServices
    /\ WF_vars(SchedulerThreadRuns)
    /\ WF_vars(SchedulerCallsMain)
    /\ WF_vars(BotThreadRuns)

\* C30: under SpecServicesFair, once start_background_services was called both
\* loops come to run: the scheduler thread is in the loop of
\* news_scheduler.main and the bot thread in the loop of telegram_bot.main.
\* Both threads end in a TypeError before either main is entered: the bot
\* thread hands api_keys to run_telegram_bot, which takes no argument, and
\* run_scheduler hands api_keys to news_scheduler.main, which takes none.
C30_BothLoopsRun ==
    (Len(services) >= 1)
        ~> (Len(services) >= 1 /\ services[1].scheduler = "loop"
                               /\ services[1].bot = "loop")

\* the threads of the first run are over while those of the second wait to run
C30_ThreadsOver ==
    /\ Len(services) = 2
    /\ services[1] = [scheduler |-> "ended", bot |-> "died"]
    /\ services[2] = [scheduler |-> "started", bot |-> "started"]

====
